---- MODULE Spec2Model ----
(***************************************************************************)
(* Policy Explainer: the grounding core of a RAG pipeline.                 *)
(*                                                                         *)
(*   SpecChunk  chunk_pages / _chunk_page_text        (src/ingestion.py)   *)
(*   SpecRetr   retrieve_for_section          (src/backend/retrieval.py)   *)
(*   SpecAsk    ask                                        (src/qa.py)     *)
(*   SpecSum    run_full_summary_pipeline / summarize_section              *)
(*                                        (src/backend/summarization.py)   *)
(*   SpecFaith  compute_faithfulness                 (src/evaluation.py)   *)
(*   SpecCompl  compute_completeness                 (src/evaluation.py)   *)
(*   SpecEval   either of the two metrics, on a store with missing files   *)
(*   SpecConf   confidence_for_qa / confidence_for_section                 *)
(*                      (src/evaluation.py, src/backend/evaluation.py)     *)
(*   SpecIngest run_ingest   (src/ingestion.py, src/backend/ingestion.py)  *)
(*   SpecIndex  add_chunks / query               (src/backend/storage.py)  *)
(*   SpecHdr    _remove_repeated_header_footer     (src/ingestion.py)      *)
(*   SpecStore  save_chunks / load_chunks      (src/backend/storage.py)    *)
(*   SpecReingest  concurrent run_ingest callers on the shared index       *)
(*                                                                         *)
(* A string is modelled as a sequence of items.  An item is a record       *)
(* [txt, chars]: either a run of whitespace (WS) or one sentence, a        *)
(* maximal stretch of text that ends in . ! or ? and holds `chars`         *)
(* characters.  A chunk id is the sequence of the code points of its       *)
(* characters, so that ids compare the way Python compares str.            *)
(***************************************************************************)
EXTENDS Integers, Sequences, FiniteSets, TLC

VARIABLES
    \* ---- chunk_pages(pages, doc_id) ----
    pages,          \* argument: list of ExtractedPage
    doc_id,         \* argument
    cpc,            \* position in chunk_pages: "pages" | "sentences" | "done"
    page_i,         \* index of the page the for loop of chunk_pages is at
    sentences,      \* _chunk_page_text: sentences of the page
    sent_i,         \* _chunk_page_text: index of the for loop over sentences
    current,        \* _chunk_page_text: the running window (list of sentences)
    current_tokens, \* _chunk_page_text: approximate tokens of the window
    chunk_index,    \* _chunk_page_text: page-local counter
    chunks,         \* _chunk_page_text: chunks of the page so far
    all_chunks,     \* chunk_pages: the result list
    \* ---- retrieve_for_section(doc_id, section_name, top_k_per_query, max_chunks) ----
    section_name,     \* argument
    top_k_per_query,  \* argument
    max_chunks,       \* argument
    rpc,              \* position in retrieve_for_section: "queries" | "done"
    q_i,              \* index of the for loop over the sub-queries
    seen,             \* dict chunk_id -> hit (with "section" added)
    returned,         \* history: every hit storage.query has returned so far
    r_result,         \* the list returned
    \* ---- ask(doc_id, question, top_k) ----
    qa_question,      \* argument
    qa_term_map,      \* what load_terminology_map() finds on disk
    qa_pc,            \* position in ask: "start" | "generate" | "validate" | "classify" | "finish" | "done"
    qa_chunks,        \* chunks: what storage.query returned
    qa_allowed_ids,   \* allowed_ids
    qa_parsed,        \* parsed: the generator's JSON object
    qa_answer_type,   \* answer_type
    qa_answer_text,   \* answer_text
    qa_citations,     \* citations
    qa_response,      \* the QAResponseOutput returned
    qa_llm_calls,     \* history: what each call of client.chat.completions.create gave
    \* ---- run_full_summary_pipeline(doc_id, detail_level) ----
    sp_index,         \* what retrieve_for_section returns for each section
    sp_term_map,      \* what load_terminology_map() finds on disk
    sp_pc,            \* position: "loop" | "score" | "save" | "done"
    sp_i,             \* index of the for loop over CORE_SECTIONS
    sp_chunks,        \* chunks of the current section
    sp_parsed,        \* history: the generator's output for the current section
    sp_section_out,   \* section_out: what summarize_section returned
    sections_with_confidence,  \* the list the loop appends to
    sp_summary,       \* the PolicySummaryOutput saved and returned
    sp_llm_calls,     \* history: the same, for the current summarize_section
    \* ---- compute_faithfulness(doc_id) ----
    fa_summary_file,  \* Policy_summary.json of the document: <<>> or <<sections>>
    fa_chunks_file,   \* chunks.jsonl of the document: <<>> or <<chunks>>
    fa_dir_exists,    \* the document directory exists
    fa_pc,            \* position: "load" | "sections" | "done"
    fa_sec_i,         \* index of the for loop over summary.sections
    total_units,      \* counters of compute_faithfulness
    supported_units,
    unsupported,
    unit_details,
    fa_result,         \* the dict returned
    \* ---- confidence_for_qa / confidence_for_section, called on their own ----
    cf_call,  \* the call: which function, and its arguments
    cf_pc,  \* position: "call" | "done"
    cf_result,  \* the string returned
    \* ---- compute_completeness(doc_id) ----
    co_summary_file,  \* Policy_summary.json of the document: <<>> or <<sections>>
    co_dir_exists,  \* the document directory exists
    co_pc,  \* position: "load" | "sections" | "done"
    co_i,  \* index of the for loop over summary.sections
    section_scores,  \* dict section name -> 1 (addressed) or 0
    weighted_sum,  \* in hundredths
    co_result,  \* the dict returned
    \* ---- run_ingest(pdf_content) ----
    in_impl,  \* which run_ingest: "src/ingestion.py" | "src/backend/ingestion.py"
    in_pdf,  \* what the uploaded bytes are
    in_fault,  \* the step the environment makes fail, and the exception it raises
    in_pc,  \* position in run_ingest
    in_dir,  \* the document directory of the generated doc_id exists
    in_files,  \* the files in that directory
    in_indexed,  \* add_chunks has put the chunks into the index
    in_exc,  \* the exception in flight inside the try block
    in_raised,  \* the exception that reached the caller
    \* ---- the vector index: storage.add_chunks / storage.query ----
    vi_collection,  \* the collection "policy_chunks": <<>> (none) or <<set of entries>>
    vi_history,  \* history: the completed add_chunks calls with a non-empty list
    vi_query,  \* the last call, when it was a query: <<>> or <<[doc_id, query_text, top_k]>>
    vi_hits,  \* what that query returned
    \* ---- _remove_repeated_header_footer(lines_by_page) ----
    lines_by_page,  \* argument: the stripped lines of each page
    hf_pc,  \* position: "call" | "done"
    hf_result,  \* the list returned
    \* ---- storage.save_chunks / storage.load_chunks, with the TTL cache ----
    ck_files,  \* chunks.jsonl of the document under each base path: <<>> (no file) or <<lines>>
    ck_cache,  \* _cache["chunks:{doc_id}"]: <<>> or <<[value, expired]>>
    ck_saved,  \* history: the list most recently saved under each base path
    ck_last,  \* the last call and what it returned
    \* ---- ---- concurrent run_ingest callers on the shared vector index ---- ----
    ri_collection,  \* the Chroma collection policy_chunks: <<>> or <<[uid, entries]>>
    ri_next_uid,  \* the uid the next created collection gets
    ri_before,  \* history: the collection before the callers started
    ri_pc,  \* per caller: position in run_ingest / add_chunks
    ri_chunks,  \* per caller: chunks, the list chunk_pages returned
    ri_handle,  \* per caller: collection, the uid _get_collection returned
    ri_dir,  \* per caller: the document directory exists
    ri_query,  \* the last call of query, <<>> after an ingestion step
    ri_hits  \* what that call returned

chunkVars == <<pages, doc_id, cpc, page_i, sentences, sent_i, current,
               current_tokens, chunk_index, chunks, all_chunks>>

retrVars == <<section_name, top_k_per_query, max_chunks, rpc, q_i, seen, returned,
              r_result>>

askVars == <<qa_question, qa_term_map, qa_pc, qa_chunks, qa_allowed_ids, qa_parsed,
             qa_answer_type, qa_answer_text, qa_citations, qa_response, qa_llm_calls>>

sumVars == <<sp_index, sp_term_map, sp_pc, sp_i, sp_chunks, sp_parsed, sp_section_out,
             sections_with_confidence, sp_summary, sp_llm_calls>>

faithVars == <<fa_summary_file, fa_chunks_file, fa_dir_exists, fa_pc, fa_sec_i,
               total_units, supported_units, unsupported, unit_details, fa_result>>

confVars == <<cf_call, cf_pc, cf_result>>

complVars == <<co_summary_file, co_dir_exists, co_pc, co_i, section_scores, weighted_sum, co_result>>

ingestVars == <<in_impl, in_pdf, in_fault, in_pc, in_dir, in_files, in_indexed, in_exc, in_raised>>

indexVars == <<vi_collection, vi_history, vi_query, vi_hits>>

hdrVars == <<lines_by_page, hf_pc, hf_result>>

storeVars == <<ck_files, ck_cache, ck_saved, ck_last>>

reingestVars == <<ri_collection, ri_next_uid, ri_before, ri_pc, ri_chunks, ri_handle, ri_dir, ri_query, ri_hits>>

vars == <<chunkVars, retrVars, askVars, sumVars, faithVars, confVars, complVars, ingestVars, indexVars, hdrVars, storeVars, reingestVars>>

\* what each operation leaves alone
notChunkVars == <<retrVars, askVars, sumVars, faithVars, confVars, complVars, ingestVars, indexVars, hdrVars, storeVars, reingestVars>>
notRetrVars == <<chunkVars, askVars, sumVars, faithVars, confVars, complVars, ingestVars, indexVars, hdrVars, storeVars, reingestVars>>
notAskVars == <<chunkVars, retrVars, sumVars, faithVars, confVars, complVars, ingestVars, indexVars, hdrVars, storeVars, reingestVars>>
notSumVars == <<chunkVars, retrVars, askVars, faithVars, confVars, complVars, ingestVars, indexVars, hdrVars, storeVars, reingestVars>>
notFaithVars == <<chunkVars, retrVars, askVars, sumVars, confVars, complVars, ingestVars, indexVars, hdrVars, storeVars, reingestVars>>
notConfVars == <<chunkVars, retrVars, askVars, sumVars, faithVars, complVars, ingestVars, indexVars, hdrVars, storeVars, reingestVars>>
notComplVars == <<chunkVars, retrVars, askVars, sumVars, faithVars, confVars, ingestVars, indexVars, hdrVars, storeVars, reingestVars>>
notIngestVars == <<chunkVars, retrVars, askVars, sumVars, faithVars, confVars, complVars, indexVars, hdrVars, storeVars, reingestVars>>
notIndexVars == <<chunkVars, retrVars, askVars, sumVars, faithVars, confVars, complVars, ingestVars, hdrVars, storeVars, reingestVars>>
notHdrVars == <<chunkVars, retrVars, askVars, sumVars, faithVars, confVars, complVars, ingestVars, indexVars, storeVars, reingestVars>>
notStoreVars == <<chunkVars, retrVars, askVars, sumVars, faithVars, confVars, complVars, ingestVars, indexVars, hdrVars, reingestVars>>
notReingestVars == <<chunkVars, retrVars, askVars, sumVars, faithVars, confVars, complVars, ingestVars, indexVars, hdrVars, storeVars>>

\* chunk_pages is not running
IdleChunk ==
    /\ pages = <<>>
    /\ doc_id = "doc-1"
    /\ cpc = "idle"
    /\ page_i = 1
    /\ sentences = <<>>
    /\ sent_i = 1
    /\ current = <<>>
    /\ current_tokens = 0
    /\ chunk_index = 0
    /\ chunks = <<>>
    /\ all_chunks = <<>>

\* retrieve_for_section is not running
IdleRetr ==
    /\ section_name = "Plan Snapshot"
    /\ top_k_per_query = 1
    /\ max_chunks = 0
    /\ rpc = "idle"
    /\ q_i = 1
    /\ seen = <<>>
    /\ returned = {}
    /\ r_result = <<>>

\* ask is not running
IdleAsk ==
    /\ qa_question = ""
    /\ qa_term_map = {}
    /\ qa_pc = "idle"
    /\ qa_chunks = <<>>
    /\ qa_allowed_ids = {}
    /\ qa_parsed = [kind |-> "none"]
    /\ qa_answer_type = ""
    /\ qa_answer_text = <<>>
    /\ qa_citations = <<>>
    /\ qa_response = <<>>
    /\ qa_llm_calls = <<>>

\* run_full_summary_pipeline is not running
IdleSum ==
    /\ sp_index = <<>>
    /\ sp_term_map = {}
    /\ sp_pc = "idle"
    /\ sp_i = 1
    /\ sp_chunks = <<>>
    /\ sp_parsed = [kind |-> "none"]
    /\ sp_section_out = <<>>
    /\ sections_with_confidence = <<>>
    /\ sp_summary = <<>>
    /\ sp_llm_calls = <<>>

\* compute_faithfulness is not running
IdleFaith ==
    /\ fa_summary_file = <<>>
    /\ fa_chunks_file = <<>>
    /\ fa_dir_exists = FALSE
    /\ fa_pc = "idle"
    /\ fa_sec_i = 1
    /\ total_units = 0
    /\ supported_units = 0
    /\ unsupported = 0
    /\ unit_details = <<>>
    /\ fa_result = <<>>

\* no confidence function is being called
IdleConf ==
    /\ cf_call = [op |-> "none"]
    /\ cf_pc = "idle"
    /\ cf_result = ""

\* compute_completeness is not running
IdleCompl ==
    /\ co_summary_file = <<>>
    /\ co_dir_exists = FALSE
    /\ co_pc = "idle"
    /\ co_i = 1
    /\ section_scores = <<>>
    /\ weighted_sum = 0
    /\ co_result = <<>>

\* run_ingest is not running
IdleIngest ==
    /\ in_impl = ""
    /\ in_pdf = ""
    /\ in_fault = [step |-> "none", type |-> ""]
    /\ in_pc = "idle"
    /\ in_dir = FALSE
    /\ in_files = {}
    /\ in_indexed = FALSE
    /\ in_exc = ""
    /\ in_raised = ""

\* the vector index is not in use
IdleIndex ==
    /\ vi_collection = <<>>
    /\ vi_history = <<>>
    /\ vi_query = <<>>
    /\ vi_hits = <<>>

\* _remove_repeated_header_footer is not being called
IdleHdr ==
    /\ lines_by_page = <<>>
    /\ hf_pc = "idle"
    /\ hf_result = <<>>

\* the chunk store is not in use
IdleStore ==
    /\ ck_files = <<>>
    /\ ck_cache = <<>>
    /\ ck_saved = <<>>
    /\ ck_last = <<>>

\* no run_ingest caller is running
IdleReingest ==
    /\ ri_collection = <<>>
    /\ ri_next_uid = 0
    /\ ri_before = <<>>
    /\ ri_pc = <<>>
    /\ ri_chunks = <<>>
    /\ ri_handle = <<>>
    /\ ri_dir = <<>>
    /\ ri_query = <<>>
    /\ ri_hits = <<>>

\* every operation but the named one is idle
OthersIdleChunk == IdleRetr /\ IdleAsk /\ IdleSum /\ IdleFaith /\ IdleConf /\ IdleCompl /\ IdleIngest /\ IdleIndex /\ IdleHdr /\ IdleStore /\ IdleReingest
OthersIdleRetr == IdleChunk /\ IdleAsk /\ IdleSum /\ IdleFaith /\ IdleConf /\ IdleCompl /\ IdleIngest /\ IdleIndex /\ IdleHdr /\ IdleStore /\ IdleReingest
OthersIdleAsk == IdleChunk /\ IdleRetr /\ IdleSum /\ IdleFaith /\ IdleConf /\ IdleCompl /\ IdleIngest /\ IdleIndex /\ IdleHdr /\ IdleStore /\ IdleReingest
OthersIdleSum == IdleChunk /\ IdleRetr /\ IdleAsk /\ IdleFaith /\ IdleConf /\ IdleCompl /\ IdleIngest /\ IdleIndex /\ IdleHdr /\ IdleStore /\ IdleReingest
OthersIdleFaith == IdleChunk /\ IdleRetr /\ IdleAsk /\ IdleSum /\ IdleConf /\ IdleCompl /\ IdleIngest /\ IdleIndex /\ IdleHdr /\ IdleStore /\ IdleReingest
OthersIdleConf == IdleChunk /\ IdleRetr /\ IdleAsk /\ IdleSum /\ IdleFaith /\ IdleCompl /\ IdleIngest /\ IdleIndex /\ IdleHdr /\ IdleStore /\ IdleReingest
OthersIdleCompl == IdleChunk /\ IdleRetr /\ IdleAsk /\ IdleSum /\ IdleFaith /\ IdleConf /\ IdleIngest /\ IdleIndex /\ IdleHdr /\ IdleStore /\ IdleReingest
OthersIdleIngest == IdleChunk /\ IdleRetr /\ IdleAsk /\ IdleSum /\ IdleFaith /\ IdleConf /\ IdleCompl /\ IdleIndex /\ IdleHdr /\ IdleStore /\ IdleReingest
OthersIdleIndex == IdleChunk /\ IdleRetr /\ IdleAsk /\ IdleSum /\ IdleFaith /\ IdleConf /\ IdleCompl /\ IdleIngest /\ IdleHdr /\ IdleStore /\ IdleReingest
OthersIdleHdr == IdleChunk /\ IdleRetr /\ IdleAsk /\ IdleSum /\ IdleFaith /\ IdleConf /\ IdleCompl /\ IdleIngest /\ IdleIndex /\ IdleStore /\ IdleReingest
OthersIdleStore == IdleChunk /\ IdleRetr /\ IdleAsk /\ IdleSum /\ IdleFaith /\ IdleConf /\ IdleCompl /\ IdleIngest /\ IdleIndex /\ IdleHdr /\ IdleReingest
OthersIdleReingest == IdleChunk /\ IdleRetr /\ IdleAsk /\ IdleSum /\ IdleFaith /\ IdleConf /\ IdleCompl /\ IdleIngest /\ IdleIndex /\ IdleHdr /\ IdleStore

(***************************************************************************)
(* Bounds of the model                                                     *)
(***************************************************************************)
MaxPages == 2      \* pages in one document
MaxSents == 4      \* sentences in one document
MaxPageNo == 2     \* largest page number
MaxTopK == 2       \* largest top_k_per_query
MaxCap == 2        \* largest max_chunks
MaxCites == 2      \* citations in one generator output
MaxIssues == 2     \* validation issues handed to a confidence function
MaxCount == 3      \* largest citation_count and retrieval_chunk_count
MaxConfBullets == 2  \* bullets of a section handed to confidence_for_section
MaxIndexChunks == 2  \* chunks in one add_chunks call
MaxAdds == 3       \* add_chunks calls with a non-empty list
MaxHdrPages == 4   \* pages handed to _remove_repeated_header_footer

(***************************************************************************)
(* Program constants                                                       *)
(***************************************************************************)
MAX_TOKENS == 800
OVERLAP_TOKENS == 80

(***************************************************************************)
(* Generic helpers                                                         *)
(***************************************************************************)
Max(a, b) == IF a >= b THEN a ELSE b

Range(s) == {s[i] : i \in 1..Len(s)}

IsPrefix(p, s) == Len(p) <= Len(s) /\ SubSeq(s, 1, Len(p)) = p

IsSuffix(p, s) == Len(p) <= Len(s) /\ SubSeq(s, Len(s) - Len(p) + 1, Len(s)) = p

(***************************************************************************)
(* Text                                                                    *)
(***************************************************************************)
WS == [txt |-> " ", chars |-> 1]

Sentences ==
    { [txt |-> "Copay applies.",      chars |-> 160],
      [txt |-> "Deductible applies.", chars |-> 1600],
      [txt |-> "Exclusions follow.",  chars |-> 3600] }

\* len(text)
RECURSIVE TextLen(_)
TextLen(text) == IF text = <<>> THEN 0 ELSE Head(text).chars + TextLen(Tail(text))

\* str.strip(): leading and trailing whitespace removed
RECURSIVE LStrip(_)
LStrip(text) ==
    IF text # <<>> /\ Head(text) = WS THEN LStrip(Tail(text)) ELSE text

RECURSIVE RStrip(_)
RStrip(text) ==
    IF text # <<>> /\ text[Len(text)] = WS
    THEN RStrip(SubSeq(text, 1, Len(text) - 1)) ELSE text

Strip(text) == RStrip(LStrip(text))

\* " ".join(list)
RECURSIVE Join(_)
Join(list) ==
    IF list = <<>> THEN <<>>
    ELSE IF Len(list) = 1 THEN <<list[1]>>
    ELSE <<Head(list), WS>> \o Join(Tail(list))

_approx_tokens(text) == Max(0, TextLen(Strip(text)) \div 4)

\* re.split(r"(?<=[.!?])\s+", text), each part stripped, empty parts dropped
_split_into_sentences(text) ==
    IF Strip(text) = <<>> THEN <<>>
    ELSE SelectSeq(text, LAMBDA it : it # WS)

(***************************************************************************)
(* Chunk ids: f"c_{page_number}_{chunk_index}"                             *)
(***************************************************************************)
RECURSIVE Decimal(_)
Decimal(n) ==
    IF n < 10 THEN <<48 + n>> ELSE Decimal(n \div 10) \o <<48 + (n % 10)>>

FormatChunkId_Off(page_number, index) ==
    <<99, 95>> \o Decimal(page_number) \o <<95>> \o Decimal(index + 1)

FormatChunkId(page_number, index) ==
    <<99, 95>> \o Decimal(page_number) \o <<95>> \o Decimal(index)

\* the page number of the first page of the document, kept for every page
NewChunk_StalePage(page_number, doc, index, text) ==
    [chunk_id |-> FormatChunkId(pages[1].page_number, index),
     page_number |-> pages[1].page_number,
     doc_id |-> doc, chunk_text |-> text]

NewChunk(page_number, doc, index, text) ==
    [chunk_id |-> FormatChunkId(page_number, index), page_number |-> page_number,
     doc_id |-> doc, chunk_text |-> text]

(***************************************************************************)
(* _chunk_page_text: the overlap walk                                      *)
(*   for s in reversed(current): ... if overlap_tokens >= OVERLAP: break   *)
(***************************************************************************)
RECURSIVE WalkBack(_, _, _, _)
WalkBack(cur, i, overlap_sentences, overlap_tokens) ==
    LET toks == overlap_tokens + _approx_tokens(<<cur[i]>>)
        acc  == <<cur[i]>> \o overlap_sentences
    IN  IF toks >= OVERLAP_TOKENS \/ i = 1
        THEN [sentences |-> acc, tokens |-> toks]
        ELSE WalkBack(cur, i - 1, acc, toks)

Overlap_OneSentence(cur) ==
    [sentences |-> <<cur[Len(cur)]>>, tokens |-> _approx_tokens(<<cur[Len(cur)]>>)]

Overlap_WholeChunk(cur) ==
    [sentences |-> cur, tokens |-> _approx_tokens(Join(cur))]

Overlap(cur) == WalkBack(cur, Len(cur), <<>>, 0)

\* if current and current_tokens + sent_tokens > MAX_TOKENS
ClosesChunk(cur, cur_tokens, sent_tokens) ==
    cur # <<>> /\ cur_tokens + sent_tokens > MAX_TOKENS

\* the chunk list of a page that has no text: one placeholder chunk
BlankPageChunks_None(page_number, doc) == <<>>

BlankPageChunks(page_number, doc) == <<NewChunk(page_number, doc, 0, <<>>)>>

(***************************************************************************)
(* Inputs of chunk_pages                                                   *)
(***************************************************************************)
DocIds == {"doc-1"}

PageNumbers == 1..MaxPageNo

\* the sentences of a whole document, at most MaxSents of them
SentSeqs == UNION {[1..k -> Sentences] : k \in 0..MaxSents}

\* where the document's sentences are cut into n pages: cut[k] sentences lie
\* on the pages 1..k
Cuts(n, total) ==
    {cut \in [1..n -> 0..total] :
        /\ \A k \in 1..(n - 1) : cut[k] <= cut[k + 1]
        /\ n > 0 => cut[n] = total}

\* page orders: n distinct page numbers
PageOrders(n) ==
    {f \in [1..n -> PageNumbers] : \A a, b \in 1..n : a # b => f[a] # f[b]}

\* the text of a page: its sentences separated by whitespace, and, when
\* padded, whitespace before and after
PageText(ss, padded) ==
    IF padded THEN <<WS>> \o Join(ss) \o <<WS>> ELSE Join(ss)

PageList(flat, cut, order, padded) ==
    [k \in 1..Len(order) |->
        [page_number |-> order[k],
         text |-> PageText(SubSeq(flat, (IF k = 1 THEN 0 ELSE cut[k - 1]) + 1, cut[k]),
                           padded)]]

(***************************************************************************)
(* chunk_pages                                                             *)
(***************************************************************************)
InitChunk ==
    /\ \E n \in 0..MaxPages, flat \in SentSeqs, padded \in BOOLEAN :
          \E cut \in Cuts(n, Len(flat)), order \in PageOrders(n) :
              /\ n = 0 => (flat = <<>> /\ ~padded)
              /\ pages = PageList(flat, cut, order, padded)
    /\ doc_id \in DocIds
    /\ cpc = "pages"
    /\ page_i = 1
    /\ sentences = <<>>
    /\ sent_i = 1
    /\ current = <<>>
    /\ current_tokens = 0
    /\ chunk_index = 0
    /\ chunks = <<>>
    /\ all_chunks = <<>>
    /\ OthersIdleChunk

\* for page in pages: _chunk_page_text(page.page_number, doc_id, page.text),
\* up to the start of its loop over the sentences
BeginPage ==
    /\ cpc = "pages"
    /\ page_i <= Len(pages)
    /\ LET page == pages[page_i]
           sents == _split_into_sentences(page.text)
       IN  IF Strip(page.text) = <<>>
           THEN /\ all_chunks' = all_chunks \o BlankPageChunks(page.page_number, doc_id)
                /\ page_i' = page_i + 1
                /\ UNCHANGED <<cpc, sentences, sent_i, current, current_tokens,
                               chunk_index, chunks>>
           ELSE IF sents = <<>>
           THEN /\ all_chunks' = all_chunks \o
                       <<NewChunk(page.page_number, doc_id, 0, Strip(page.text))>>
                /\ page_i' = page_i + 1
                /\ UNCHANGED <<cpc, sentences, sent_i, current, current_tokens,
                               chunk_index, chunks>>
           ELSE /\ sentences' = sents
                /\ sent_i' = 1
                /\ current' = <<>>
                /\ current_tokens' = 0
                /\ chunk_index' = 0
                /\ chunks' = <<>>
                /\ cpc' = "sentences"
                /\ UNCHANGED <<page_i, all_chunks>>
    /\ UNCHANGED <<pages, doc_id>>
    /\ UNCHANGED notChunkVars

\* one iteration of: for sent in sentences
SentenceStep ==
    /\ cpc = "sentences"
    /\ sent_i <= Len(sentences)
    /\ LET sent == sentences[sent_i]
           sent_tokens == _approx_tokens(<<sent>>)
           page == pages[page_i]
       IN  IF ClosesChunk(current, current_tokens, sent_tokens)
           THEN LET ov == Overlap(current)
                IN  /\ chunks' = Append(chunks,
                           NewChunk(page.page_number, doc_id, chunk_index, Join(current)))
                    /\ chunk_index' = chunk_index + 1
                    /\ current' = Append(ov.sentences, sent)
                    /\ current_tokens' = ov.tokens + sent_tokens
           ELSE /\ current' = Append(current, sent)
                /\ current_tokens' = current_tokens + sent_tokens
                /\ UNCHANGED <<chunks, chunk_index>>
    /\ sent_i' = sent_i + 1
    /\ UNCHANGED <<pages, doc_id, cpc, page_i, sentences, all_chunks>>
    /\ UNCHANGED notChunkVars

\* after the loop: flush the remainder, return, and all_chunks.extend(...)
FlushPage ==
    /\ cpc = "sentences"
    /\ sent_i > Len(sentences)
    /\ LET page == pages[page_i]
           result == IF current # <<>>
                     THEN Append(chunks,
                              NewChunk(page.page_number, doc_id, chunk_index, Join(current)))
                     ELSE chunks
       IN  all_chunks' = all_chunks \o result
    /\ page_i' = page_i + 1
    /\ cpc' = "pages"
    /\ UNCHANGED <<pages, doc_id, sentences, sent_i, current, current_tokens,
                   chunk_index, chunks>>
    /\ UNCHANGED notChunkVars

\* return all_chunks
ChunkPagesReturn ==
    /\ cpc = "pages"
    /\ page_i > Len(pages)
    /\ cpc' = "done"
    /\ UNCHANGED <<pages, doc_id, page_i, sentences, sent_i, current, current_tokens,
                   chunk_index, chunks, all_chunks>>
    /\ UNCHANGED notChunkVars

NextChunk == BeginPage \/ SentenceStep \/ FlushPage \/ ChunkPagesReturn

SpecChunk == InitChunk /\ [][NextChunk]_vars

(***************************************************************************)
(* Python order of str and of tuples                                       *)
(***************************************************************************)
\* a < b for two str, compared code point by code point
RECURSIVE StrLess(_, _)
StrLess(a, b) ==
    IF b = <<>> THEN FALSE
    ELSE IF a = <<>> THEN TRUE
    ELSE IF Head(a) # Head(b) THEN Head(a) < Head(b)
    ELSE StrLess(Tail(a), Tail(b))

\* the sort key of retrieve_for_section: (page_number, chunk_id)
KeyLess_PageOnly(x, y) == x.page_number < y.page_number

KeyLess(x, y) ==
    \/ x.page_number < y.page_number
    \/ x.page_number = y.page_number /\ StrLess(x.chunk_id, y.chunk_id)

\* sorted(values, key=...) for values with pairwise different keys
RECURSIVE SortedByKey(_)
SortedByKey(S) ==
    IF S = {} THEN <<>>
    ELSE LET m == CHOOSE x \in S : \A y \in S \ {x} : ~KeyLess(y, x)
         IN  <<m>> \o SortedByKey(S \ {m})

\* list[:n] for n >= 0
Cap_OneMore(list, n) == SubSeq(list, 1, IF n + 1 < Len(list) THEN n + 1 ELSE Len(list))

Cap(list, n) == SubSeq(list, 1, IF n < Len(list) THEN n ELSE Len(list))

(***************************************************************************)
(* retrieve_for_section                                        retrieval.py *)
(***************************************************************************)
CORE_SECTIONS ==
    << "Plan Snapshot", "Cost Summary", "Summary of Covered Services",
       "Administrative Conditions", "Exclusions & Limitations",
       "Claims, Appeals & Member Rights" >>

SECTION_QUERIES ==
    [ s \in Range(CORE_SECTIONS) |->
        CASE s = "Plan Snapshot" ->
               << "plan name and type", "summary of benefits overview",
                  "plan overview and key features" >>
          [] s = "Cost Summary" ->
               << "deductible amount and when it applies", "copay and coinsurance",
                  "out of pocket maximum OOP", "annual deductible",
                  "cost sharing requirements" >>
          [] s = "Summary of Covered Services" ->
               << "what is covered", "covered benefits and services", "coverage details",
                  "covered medical services", "benefits included in plan" >>
          [] s = "Administrative Conditions" ->
               << "prior authorization", "referrals required",
                  "administrative requirements" >>
          [] s = "Exclusions & Limitations" ->
               << "exclusions not covered", "limitations and restrictions",
                  "what is not covered" >>
          [] s = "Claims, Appeals & Member Rights" ->
               << "how to file a claim", "appeals and grievances",
                  "member rights and responsibilities" >> ]

\* SECTION_QUERIES.get(section_name); an unknown name has no queries
QueriesOf(name) ==
    IF name \in DOMAIN SECTION_QUERIES THEN SECTION_QUERIES[name] ELSE <<>>

\* a distance is <<d>>, or <<>> for None
NoDistance == <<>>

Distances == {NoDistance, <<1>>, <<2>>}

\* what the vector index holds for the document
IndexChunks ==
    { [chunk_id |-> FormatChunkId(1, 2),  page_number |-> 1, chunk_text |-> "Copay $25."],
      [chunk_id |-> FormatChunkId(1, 10), page_number |-> 1, chunk_text |-> "Deductible is $500."],
      [chunk_id |-> FormatChunkId(2, 0),  page_number |-> 2, chunk_text |-> "Referrals required."] }

\* one element of the list storage.query returns
Hit(c, d) ==
    [chunk_id |-> c.chunk_id, page_number |-> c.page_number, doc_id |-> "doc-1",
     chunk_text |-> c.chunk_text, distance |-> d]

Hits == {Hit(c, d) : c \in IndexChunks, d \in Distances}

\* the answers storage.query can give for top_k = k: at most k hits, each
\* chunk at most once, in any order
IndexAnswers(k) ==
    UNION { {a \in [1..n -> Hits] :
                \A i, j \in 1..n : i # j => a[i].chunk_id # a[j].chunk_id}
            : n \in 0..k }

\* out = dict(h); out["section"] = section_name
WithSection(h, name) ==
    [chunk_id |-> h.chunk_id, page_number |-> h.page_number, doc_id |-> h.doc_id,
     chunk_text |-> h.chunk_text, distance |-> h.distance, section |-> name]

\* the body of: for h in hits
MergeHit_FirstWins(sn, h, name) ==
    IF h.chunk_id = <<>> THEN sn
    ELSE IF h.chunk_id \notin DOMAIN sn
    THEN sn @@ (h.chunk_id :> WithSection(h, name))
    ELSE sn

MergeHit(sn, h, name) ==
    IF h.chunk_id = <<>> THEN sn
    ELSE IF h.chunk_id \notin DOMAIN sn
    THEN sn @@ (h.chunk_id :> WithSection(h, name))
    ELSE IF /\ h.distance # NoDistance
            /\ sn[h.chunk_id].distance # NoDistance
            /\ h.distance[1] < sn[h.chunk_id].distance[1]
    THEN [sn EXCEPT ![h.chunk_id] = WithSection(h, name)]
    ELSE sn

RECURSIVE MergeHits(_, _, _)
MergeHits(sn, hits, name) ==
    IF hits = <<>> THEN sn
    ELSE MergeHits(MergeHit(sn, Head(hits), name), Tail(hits), name)

\* sorted(seen.values(), key=(page_number, chunk_id))[:max_chunks]
OrderedAndCapped(sn, cap) == Cap(SortedByKey({sn[c] : c \in DOMAIN sn}), cap)

\* the section names asked for: one with three sub-queries, one with five, and
\* one that is not in the table
SectionInputs == {CORE_SECTIONS[1], CORE_SECTIONS[2], "Unknown Section"}

InitRetr ==
    /\ section_name \in SectionInputs
    /\ top_k_per_query \in 1..MaxTopK
    /\ max_chunks \in 0..MaxCap
    /\ rpc = "queries"
    /\ q_i = 1
    /\ seen = <<>>
    /\ returned = {}
    /\ r_result = <<>>
    /\ OthersIdleRetr

\* one iteration of: for q in queries, with the call of storage.query
QueryStep ==
    /\ rpc = "queries"
    /\ q_i <= Len(QueriesOf(section_name))
    /\ IF QueriesOf(section_name)[q_i] = ""
       THEN UNCHANGED <<seen, returned>>
       ELSE \E hits \in IndexAnswers(top_k_per_query) :
               /\ seen' = MergeHits(seen, hits, section_name)
               /\ returned' = returned \cup Range(hits)
    /\ q_i' = q_i + 1
    /\ UNCHANGED <<section_name, top_k_per_query, max_chunks, rpc, r_result>>
    /\ UNCHANGED notRetrVars

\* if not queries: return []   /   return ordered[:max_chunks]
RetrieveReturn ==
    /\ rpc = "queries"
    /\ q_i > Len(QueriesOf(section_name))
    /\ r_result' = IF QueriesOf(section_name) = <<>> THEN <<>>
                   ELSE OrderedAndCapped(seen, max_chunks)
    /\ rpc' = "done"
    /\ UNCHANGED <<section_name, top_k_per_query, max_chunks, q_i, seen, returned>>
    /\ UNCHANGED notRetrVars

NextRetr == QueryStep \/ RetrieveReturn

SpecRetr == InitRetr /\ [][NextRetr]_vars

(***************************************************************************)
(* Generator output: JSON values                                           *)
(*   A candidate citation is whatever JSON value the generator put in a    *)
(*   "citations" list.  `type` is the Python type json.loads gives it.     *)
(***************************************************************************)
JInt(n) == [type |-> "int", v |-> n]

\* a number written as a JSON string, e.g. "page": "1"
JNumeral(n) == [type |-> "str", v |-> n]

JStr(s) == [type |-> "str", v |-> s]

Cite(page, chunk_id) == [type |-> "dict", page |-> page, chunk_id |-> chunk_id]

\* a list element that is not an object, e.g. the string "p. 3"
NotADict ==
    [type |-> "str", page |-> [type |-> "null", v |-> 0],
     chunk_id |-> [type |-> "null", v |-> <<>>]]

CandidatePool ==
    { Cite(JInt(1), JStr(FormatChunkId(1, 2))),
      Cite(JInt(2), JStr(FormatChunkId(2, 0))),
      Cite(JInt(2), JStr(FormatChunkId(1, 2))),
      Cite(JInt(1), JStr(FormatChunkId(9, 9))),
      Cite(JInt(0), JStr(FormatChunkId(1, 2))),
      Cite(JNumeral(1), JStr(FormatChunkId(1, 2))),
      NotADict }

CiteLists == UNION { [1..n -> CandidatePool] : n \in 0..MaxCites }

\* what json.loads can give for the whole completion
JNone == [kind |-> "none"]
EmptyObject == [kind |-> "empty"]
\* a JSON value that is no object and is truthy: [1, 2], "text", 42, true
NonObject == [kind |-> "value"]

\* not parsed
Falsy(parsed) == parsed.kind \in {"none", "empty"}

\* _parse_llm_json: the object between the code fence, or between the first
\* "{" and the last "}"; None when json.loads raises
_parse_llm_json(raw) ==
    IF raw.wrap = "fence" THEN raw.body
    ELSE IF raw.wrap = "bare" THEN raw.body
    ELSE IF raw.wrap = "value" THEN raw.body
    ELSE JNone

\* the completions that are no JSON object: prose without braces, braces around
\* truncated or invalid JSON (json.loads raises JSONDecodeError), the JSON
\* value null, and a JSON value without braces that is no object
MalformedCompletions ==
    { [wrap |-> "prose", body |-> JNone], [wrap |-> "broken", body |-> JNone],
      [wrap |-> "value", body |-> JNone], [wrap |-> "value", body |-> NonObject] }

\* client.chat.completions.create raises
ClientError == [wrap |-> "error", body |-> JNone]

\* parsed.get(...) on a value that is no dict raises AttributeError
GetRaises(parsed) == ~ Falsy(parsed) /\ parsed.kind # "object"

(***************************************************************************)
(* Citation validation                                                     *)
(***************************************************************************)
\* schemas.Citation
Citation(page, chunk_id) == [page |-> page, chunk_id |-> chunk_id]

\* a validator that forgets the lower bound of the page
CitationOk_NoPageBound(c, allowed_chunk_ids) ==
    /\ c.type = "dict"
    /\ c.page.type = "int"
    /\ c.chunk_id.type = "str"
    /\ c.chunk_id.v # <<>>
    /\ c.chunk_id.v \in allowed_chunk_ids

\* isinstance(c, dict) and isinstance(page, int) and page >= 1 and
\* isinstance(cid, str) and cid and cid in allowed_chunk_ids
CitationOk(c, allowed_chunk_ids) ==
    /\ c.type = "dict"
    /\ c.page.type = "int"
    /\ c.page.v >= 1
    /\ c.chunk_id.type = "str"
    /\ c.chunk_id.v # <<>>
    /\ c.chunk_id.v \in allowed_chunk_ids

\* src/qa.py: _validate_citations(citations, allowed_chunk_ids)
_validate_citations(citations, allowed_chunk_ids) ==
    LET kept == SelectSeq(citations, LAMBDA c : CitationOk(c, allowed_chunk_ids))
    IN  [i \in 1..Len(kept) |-> Citation(kept[i].page.v, kept[i].chunk_id.v)]

\* allowed_ids = {str(c.get("chunk_id")) for c in chunks if c.get("chunk_id")}
AllowedIds(chunk_list) ==
    {chunk_list[i].chunk_id : i \in {j \in 1..Len(chunk_list) : chunk_list[j].chunk_id # <<>>}}

\* {c.get("page_number") for c in chunks if c.get("page_number")}
ValidPageNumbers(chunk_list) ==
    {chunk_list[i].page_number : i \in {j \in 1..Len(chunk_list) : chunk_list[j].page_number # 0}}

\* s.strip() of a chunk text or of a question
StripStr(s) == IF s \in {"", " "} THEN "" ELSE s

\* not chunks or not any((c.get("chunk_text") or "").strip() for c in chunks)
NothingToRead(chunk_list) ==
    \/ chunk_list = <<>>
    \/ \A i \in 1..Len(chunk_list) : StripStr(chunk_list[i].chunk_text) = ""

(***************************************************************************)
(* Answer text: a sequence of items, as in the chunker                     *)
(***************************************************************************)
Sentence(s, n) == [txt |-> s, chars |-> n]

NOT_FOUND_ANSWER == <<Sentence("Not found in this document.", 27)>>

QA_RESPONSE_DISCLAIMER ==
    "This explanation is for informational purposes only. Refer to official policy documents."

FactualAnswer == <<Sentence("The co-pay is $25.", 18)>>

\* seven sentences
LongAnswer == [i \in 1..7 |-> Sentence("It is covered.", 14)]

\* the sentences of the model whose lower-cased text contains
\* "not found in this document"
SaysNotFound(item) == item.txt \in {"Not found in this document."}

\* what schema/terminology_map.json can hold: (synonym, canonical) pairs
TermMaps == { {}, {<<"co-pay", "copay">>} }

\* re.sub of every synonym by its canonical term, whole phrases only
Canonical(item, terminology_map) ==
    IF item.txt = "The co-pay is $25." /\ <<"co-pay", "copay">> \in terminology_map
    THEN Sentence("The copay is $25.", 17)
    ELSE item

normalize_text(text, terminology_map) ==
    IF Strip(text) = <<>> THEN text
    ELSE IF terminology_map = {} THEN text
    ELSE [i \in 1..Len(text) |-> Canonical(text[i], terminology_map)]

\* len([p for p in SENTENCE_PATTERN.split(text.strip()) if p.strip()])
_count_sentences(text) ==
    Len(SelectSeq(Strip(text), LAMBDA item : item # WS))

_answerable_has_factual_content(answer) ==
    LET a == Strip(answer)
    IN  ~ (a = <<>> \/ \E i \in 1..Len(a) : SaysNotFound(a[i]))

(***************************************************************************)
(* Validation issues.  An issue is the format string that produced it and  *)
(* the values formatted into it.                                           *)
(***************************************************************************)
Issue(kind, arg) == [kind |-> kind, arg |-> arg]

\* needle in issue, for the needles the code looks for
IssueContains(issue, needle) ==
    CASE needle = "invalid_page" ->
            issue.kind \in {"bullet_{i}_invalid_page:{page}", "invalid_page_citation:{p}",
                            "invalid_page_citation"}
      [] needle = "invalid_chunk" ->
            issue.kind \in {"bullet_{i}_invalid_chunk_id:{cid}"}
      [] needle = "missing_citations" ->
            issue.kind \in {"bullet_{i}_missing_citations"}
      [] needle = "missing" ->
            issue.kind \in {"bullet_{i}_missing_citations"}
      [] needle = "invalid" ->
            issue.kind \in {"bullet_{i}_invalid_page:{page}", "invalid_page_citation:{p}",
                            "invalid_page_citation", "bullet_{i}_invalid_chunk_id:{cid}"}
      [] needle = "no_citations" ->
            issue.kind \in {"answerable_but_no_citations"}
      [] OTHER -> FALSE

\* text in issues: a list holds the very string
IssueListHas(issues, text) ==
    \E i \in 1..Len(issues) : issues[i] = Issue(text, <<>>)

RECURSIVE SortInts(_)
SortInts(S) ==
    IF S = {} THEN <<>>
    ELSE LET m == CHOOSE x \in S : \A y \in S : x <= y
         IN  <<m>> \o SortInts(S \ {m})

\* answer + " " + " ".join("(p. N)" ...) if citations else answer
AnswerDisplay(answer, citations) ==
    [text |-> answer,
     pages |-> SortInts({citations[i].page : i \in 1..Len(citations)})]

\* for c in citations: if isinstance(p, int) and p not in valid_page_numbers
PageIssues(citations, valid_page_numbers) ==
    IF valid_page_numbers = {} THEN <<>>
    ELSE LET bad == SelectSeq(citations, LAMBDA c : c.page \notin valid_page_numbers)
         IN  [i \in 1..Len(bad) |-> Issue("invalid_page_citation:{p}", <<bad[i].page>>)]

\* src/evaluation.py: returns (is_valid, issues, answer_display)
validate_qa_response(response_json, valid_page_numbers) ==
    LET answer == Strip(response_json.answer)
        answer_type == IF response_json.answer_type = "" THEN "not_found"
                       ELSE response_json.answer_type
        citations == response_json.citations
        issues0 == IF StripStr(response_json.disclaimer) = ""
                   THEN <<Issue("disclaimer_required", <<>>)>> ELSE <<>>
        Result(issues, display) ==
            [is_valid |-> issues = <<>>, issues |-> issues, answer_display |-> display]
    IN  CASE answer_type \in {"not_found", "ambiguous"} ->
                Result(issues0, AnswerDisplay(answer, <<>>))
          [] answer_type = "conflict" ->
                Result(issues0 \o PageIssues(citations, valid_page_numbers),
                       AnswerDisplay(answer, citations))
          [] answer_type = "answerable" ->
                Result(issues0
                       \o (IF _answerable_has_factual_content(answer) /\ citations = <<>>
                           THEN <<Issue("answerable_but_no_citations", <<>>)>> ELSE <<>>)
                       \o (IF _count_sentences(answer) > 6
                           THEN <<Issue("sentence_count_exceeds_6", <<>>)>> ELSE <<>>)
                       \o PageIssues(citations, valid_page_numbers),
                       AnswerDisplay(answer, citations))
          [] OTHER ->
                Result(issues0 \o <<Issue("unknown_answer_type", <<>>)>>,
                       AnswerDisplay(answer, <<>>))

\* src/evaluation.py
confidence_for_qa(answer_type, citation_count, validation_issues, retrieval_chunk_count, retrieval_strong) ==
    IF answer_type # "answerable" THEN "low"
    ELSE IF \/ IssueListHas(validation_issues, "answerable_but_no_citations")
            \/ IssueListHas(validation_issues, "invalid_page_citation")
            \/ citation_count = 0
            \/ retrieval_chunk_count = 0
         THEN "low"
    ELSE IF validation_issues # <<>> THEN "medium"
    ELSE IF citation_count >= 2 /\ (retrieval_strong \/ retrieval_chunk_count >= 3)
         THEN "high"
    ELSE IF citation_count >= 1 THEN "medium"
    ELSE "low"

(***************************************************************************)
(* ask (src/qa.py)                                                         *)
(***************************************************************************)
Questions == {" ", "What is my copay?"}

QaChunk(page_number, index, text) ==
    Hit([chunk_id |-> FormatChunkId(page_number, index), page_number |-> page_number,
         chunk_text |-> text], <<1>>)

\* what storage.query can return for the question
QueryAnswers ==
    { <<>>,
      <<QaChunk(3, 0, " ")>>,
      <<QaChunk(1, 2, "Copay $25.")>>,
      <<QaChunk(2, 0, "Referrals required."), QaChunk(1, 10, "Deductible is $500."),
        QaChunk(1, 2, "Copay $25.")>> }

NoText == <<>>

ClarificationQuestion == <<Sentence("Which plan year do you mean?", 28)>>

ConflictExplanation == <<Sentence("Pages 1 and 2 disagree.", 23)>>

AnswerTypesOffered == {"answerable", "not_found", "ambiguous", "conflict", "maybe", ""}

AnswersOffered == {NoText, <<WS>>, NOT_FOUND_ANSWER, FactualAnswer, LongAnswer}

\* the JSON objects the generator can return; a missing key reads as its
\* falsy value, which is how ask reads it (parsed.get(key) or default)
QaObjects ==
    { [kind |-> "object", answer_type |-> t, answer |-> a, citations |-> cs,
       clarification_question |-> IF x THEN ClarificationQuestion ELSE NoText,
       conflict_explanation |-> IF x THEN ConflictExplanation ELSE NoText]
      : t \in AnswerTypesOffered, a \in AnswersOffered, cs \in CiteLists, x \in BOOLEAN }

QaCompletions ==
    MalformedCompletions
    \cup { [wrap |-> "fence", body |-> EmptyObject], ClientError }
    \cup { [wrap |-> "bare", body |-> o] : o \in QaObjects }

QAResponseOutput(question, answer, answer_type, citations, confidence, validation_issues, answer_display) ==
    [doc_id |-> "doc-1", question |-> question, answer |-> answer,
     answer_type |-> answer_type, citations |-> citations, confidence |-> confidence,
     disclaimer |-> QA_RESPONSE_DISCLAIMER, validation_issues |-> validation_issues,
     answer_display |-> answer_display]

\* the response every early return of ask builds
NotFoundResponse(question, validation_issues) ==
    QAResponseOutput(question, NOT_FOUND_ANSWER, "not_found", <<>>, "low",
                     validation_issues, AnswerDisplay(NOT_FOUND_ANSWER, <<>>))

InitAsk ==
    /\ qa_question \in Questions
    /\ qa_term_map \in TermMaps
    /\ qa_pc = "start"
    /\ qa_chunks = <<>>
    /\ qa_allowed_ids = {}
    /\ qa_parsed = JNone
    /\ qa_answer_type = ""
    /\ qa_answer_text = <<>>
    /\ qa_citations = <<>>
    /\ qa_response = <<>>
    /\ qa_llm_calls = <<>>
    /\ OthersIdleAsk

\* question.strip(), storage.query, allowed_ids, the two empty-context returns
AskRetrieve ==
    /\ qa_pc = "start"
    /\ \E answer \in QueryAnswers :
        IF StripStr(qa_question) = ""
        THEN /\ qa_response' = NotFoundResponse("", <<>>)
             /\ qa_pc' = "done"
             /\ UNCHANGED <<qa_chunks, qa_allowed_ids>>
        ELSE /\ qa_chunks' = answer
             /\ qa_allowed_ids' = AllowedIds(answer)
             /\ IF NothingToRead(answer)
                THEN /\ qa_response' = NotFoundResponse(StripStr(qa_question), <<>>)
                     /\ qa_pc' = "done"
                ELSE /\ qa_pc' = "generate"
                     /\ UNCHANGED qa_response
    /\ UNCHANGED <<qa_llm_calls, qa_question, qa_term_map, qa_parsed, qa_answer_type, qa_answer_text,
                   qa_citations>>
    /\ UNCHANGED notAskVars

\* the completion, _parse_llm_json, if not parsed: return; an exception of the
\* client call, or of parsed.get on a value that is no dict, leaves ask
AskGenerate ==
    /\ qa_pc = "generate"
    /\ \E raw \in QaCompletions :
        LET parsed == _parse_llm_json(raw)
        IN  /\ qa_llm_calls' = Append(qa_llm_calls, raw)
            /\ IF raw = ClientError
               THEN /\ qa_pc' = "raised"
                    /\ UNCHANGED <<qa_parsed, qa_response>>
               ELSE IF Falsy(parsed)
               THEN /\ qa_response' = NotFoundResponse(
                           StripStr(qa_question),
                           <<Issue("llm_response_parse_failed", <<>>)>>)
                    /\ qa_pc' = "done"
                    /\ UNCHANGED qa_parsed
               ELSE IF GetRaises(parsed)
               THEN /\ qa_parsed' = parsed
                    /\ qa_pc' = "raised"
                    /\ UNCHANGED qa_response
               ELSE /\ qa_parsed' = parsed
                    /\ qa_pc' = "validate"
                    /\ UNCHANGED qa_response
    /\ UNCHANGED <<qa_question, qa_term_map, qa_chunks, qa_allowed_ids, qa_answer_type,
                   qa_answer_text, qa_citations>>
    /\ UNCHANGED notAskVars

\* answer_type, answer_text, citations = _validate_citations(...)
AskValidate ==
    /\ qa_pc = "validate"
    /\ qa_answer_type' =
        IF qa_parsed.answer_type \in {"answerable", "not_found", "ambiguous", "conflict"}
        THEN qa_parsed.answer_type ELSE "not_found"
    /\ qa_answer_text' = qa_parsed.answer
    /\ qa_citations' = _validate_citations(qa_parsed.citations, qa_allowed_ids)
    /\ qa_pc' = "classify"
    /\ UNCHANGED <<qa_llm_calls, qa_question, qa_term_map, qa_chunks, qa_allowed_ids, qa_parsed,
                   qa_response>>
    /\ UNCHANGED notAskVars

\* the if / elif chain on answer_type, then normalize_text
AskClassify ==
    /\ qa_pc = "classify"
    /\ LET text ==
            CASE qa_answer_type = "ambiguous" ->
                    IF Strip(qa_answer_text) = <<>>
                    THEN IF qa_parsed.clarification_question # NoText
                         THEN qa_parsed.clarification_question
                         ELSE <<Sentence("Please specify what you would like to know.", 43)>>
                    ELSE qa_answer_text
              [] qa_answer_type = "conflict" ->
                    IF Strip(qa_answer_text) = <<>>
                    THEN IF qa_parsed.conflict_explanation # NoText
                         THEN qa_parsed.conflict_explanation
                         ELSE <<Sentence(
                                "The document excerpts contain conflicting information.", 54)>>
                    ELSE qa_answer_text
              [] qa_answer_type = "not_found" -> NOT_FOUND_ANSWER
              [] OTHER -> qa_answer_text
       IN  qa_answer_text' = normalize_text(text, qa_term_map)
    /\ qa_citations' = IF qa_answer_type \in {"ambiguous", "not_found"}
                       THEN <<>> ELSE qa_citations
    /\ qa_pc' = "finish"
    /\ UNCHANGED <<qa_llm_calls, qa_question, qa_term_map, qa_chunks, qa_allowed_ids, qa_parsed,
                   qa_answer_type, qa_response>>
    /\ UNCHANGED notAskVars

\* validate_qa_response, the forced not_found, confidence_for_qa, return
AskFinish ==
    /\ qa_pc = "finish"
    /\ LET question == StripStr(qa_question)
           response_json == [answer |-> qa_answer_text, answer_type |-> qa_answer_type,
                             citations |-> qa_citations,
                             disclaimer |-> QA_RESPONSE_DISCLAIMER]
           v == validate_qa_response(response_json, ValidPageNumbers(qa_chunks))
       IN  qa_response' =
             IF ~ v.is_valid /\ IssueListHas(v.issues, "answerable_but_no_citations")
             THEN NotFoundResponse(question, v.issues)
             ELSE QAResponseOutput(
                    question, qa_answer_text, qa_answer_type, qa_citations,
                    confidence_for_qa(qa_answer_type, Len(qa_citations), v.issues,
                                      Len(qa_chunks), Len(qa_chunks) >= 3),
                    v.issues, v.answer_display)
    /\ qa_pc' = "done"
    /\ UNCHANGED <<qa_llm_calls, qa_question, qa_term_map, qa_chunks, qa_allowed_ids, qa_parsed,
                   qa_answer_type, qa_answer_text, qa_citations>>
    /\ UNCHANGED notAskVars

NextAsk ==
    \/ AskRetrieve
    \/ AskGenerate
    \/ AskValidate
    \/ AskClassify
    \/ AskFinish

SpecAsk == InitAsk /\ [][NextAsk]_vars

(***************************************************************************)
(* summarize_section (src/backend/summarization.py)                        *)
(***************************************************************************)
STANDARD_MAX_BULLETS == 6
DETAILED_MAX_BULLETS == 12

NOT_FOUND_MESSAGE == "Not found in this document."

BulletText == <<Sentence("Your co-pay is $25.", 19)>>

\* one element of the generator's "bullets" list
RawBullet(citations) == [text |-> BulletText, citations |-> citations]

\* the "bullets" lists the generator can return: no bullet, one bullet, or
\* two bullets that share out a list of candidate citations
BulletLists ==
    {<<>>}
    \cup { <<RawBullet(f)>> : f \in CiteLists }
    \cup UNION { { <<RawBullet(SubSeq(f, 1, k)), RawBullet(SubSeq(f, k + 1, Len(f)))>>
                   : k \in 0..Len(f) } : f \in CiteLists }

\* "present" missing reads as true: bool(parsed.get("present", True))
SumObjects ==
    { [kind |-> "object", present |-> p, bullets |-> bs]
      : p \in BOOLEAN, bs \in BulletLists }

SumCompletions ==
    MalformedCompletions
    \cup { [wrap |-> "fence", body |-> EmptyObject], ClientError }
    \cup { [wrap |-> "bare", body |-> o] : o \in SumObjects }

\* the generator is not called
NoCompletion == [wrap |-> "none", body |-> JNone]

BulletWithCitations(text, citations) == [text |-> text, citations |-> citations]

\* src/backend/summarization.py: _validate_citations(bullets, allowed_chunk_ids)
_validate_citations_of_bullets(bullets, allowed_chunk_ids) ==
    [i \in 1..Len(bullets) |->
        BulletWithCitations(bullets[i].text,
                            _validate_citations(bullets[i].citations, allowed_chunk_ids))]

\* a summarizer that keeps a bullet whose citations were all dropped
DropUncited_KeepAll(bullets) == bullets

\* bullets = [b for b in bullets if b.citations]
DropUncited(bullets) == SelectSeq(bullets, LAMBDA b : b.citations # <<>>)

\* bullets[:max_b]
_clamp_bullets(bullets, detail_level) ==
    LET max_b == IF detail_level = "detailed" THEN DETAILED_MAX_BULLETS
                 ELSE STANDARD_MAX_BULLETS
    IN  SubSeq(bullets, 1, IF Len(bullets) < max_b THEN Len(bullets) ELSE max_b)

\* not_found_message is None or a str: <<>> or <<message>>
SectionSummaryOutput(name, present, bullets, not_found_message) ==
    [section_name |-> name, present |-> present, bullets |-> bullets,
     not_found_message |-> not_found_message]

SectionNotFound(name) == SectionSummaryOutput(name, FALSE, <<>>, <<NOT_FOUND_MESSAGE>>)

\* the generator is reached: neither of the two early returns is taken
CallsGenerator(chunk_list) == ~ NothingToRead(chunk_list)

\* summarize_section does not return: the client call raises, or parsed.get is
\* called on a value that is no dict
SummarizeRaises(chunk_list, raw) ==
    /\ CallsGenerator(chunk_list)
    /\ (raw = ClientError \/ GetRaises(_parse_llm_json(raw)))

\* summarize_section(section_name, chunks, detail_level), given the completion
\* the generator returns when it is called
summarize_section(name, chunk_list, raw, terminology_map, detail_level) ==
    IF NothingToRead(chunk_list) THEN SectionNotFound(name)
    ELSE LET parsed == _parse_llm_json(raw)
         IN  IF Falsy(parsed) THEN SectionNotFound(name)
             ELSE LET validated == _validate_citations_of_bullets(parsed.bullets,
                                                                  AllowedIds(chunk_list))
                      clamped == _clamp_bullets(DropUncited(validated), detail_level)
                      bullets == [i \in 1..Len(clamped) |->
                                    BulletWithCitations(
                                        normalize_text(clamped[i].text, terminology_map),
                                        clamped[i].citations)]
                  IN  IF ~ parsed.present \/ bullets = <<>>
                      THEN SectionNotFound(name)
                      ELSE SectionSummaryOutput(name, TRUE, bullets, <<>>)

(***************************************************************************)
(* validate_section_summary, confidence_for_section (src/evaluation.py)    *)
(***************************************************************************)
RECURSIVE CitationIssues(_, _, _, _)
CitationIssues(i, citations, valid_chunk_ids, valid_page_numbers) ==
    IF citations = <<>> THEN <<>>
    ELSE LET c == Head(citations)
         IN  (IF c.page \notin valid_page_numbers
              THEN <<Issue("bullet_{i}_invalid_page:{page}", <<i, c.page>>)>> ELSE <<>>)
             \o (IF c.chunk_id \notin valid_chunk_ids
                 THEN <<Issue("bullet_{i}_invalid_chunk_id:{cid}", <<i>> \o c.chunk_id)>>
                 ELSE <<>>)
             \o CitationIssues(i, Tail(citations), valid_chunk_ids, valid_page_numbers)

RECURSIVE BulletIssues(_, _, _, _)
BulletIssues(i, bullets, valid_chunk_ids, valid_page_numbers) ==
    IF i > Len(bullets) THEN <<>>
    ELSE (IF bullets[i].citations = <<>>
          THEN <<Issue("bullet_{i}_missing_citations", <<i>>)>> ELSE <<>>)
         \o CitationIssues(i, bullets[i].citations, valid_chunk_ids, valid_page_numbers)
         \o BulletIssues(i + 1, bullets, valid_chunk_ids, valid_page_numbers)

\* returns the issues; is_valid is issues = <<>>
validate_section_summary(section_out, valid_chunk_ids, valid_page_numbers, detail_level) ==
    IF ~ section_out.present THEN <<>>
    ELSE LET max_b == IF detail_level = "standard" THEN 6 ELSE 12
         IN  (IF Len(section_out.bullets) > max_b
              THEN <<Issue("bullet_count_exceeds_{max_b}", <<max_b>>)>> ELSE <<>>)
             \o BulletIssues(1, section_out.bullets, valid_chunk_ids, valid_page_numbers)

confidence_for_section(section_out, validation_issues, retrieval_chunk_count) ==
    IF ~ section_out.present \/ section_out.bullets = <<>> \/ retrieval_chunk_count = 0
    THEN "low"
    ELSE LET bullets_with_citations ==
                Len(SelectSeq(section_out.bullets, LAMBDA b : b.citations # <<>>))
             total_bullets == Len(section_out.bullets)
             complete_citations ==
                total_bullets > 0 /\ bullets_with_citations >= total_bullets
             critical ==
                SelectSeq(validation_issues,
                          LAMBDA i : \/ IssueContains(i, "invalid_page")
                                     \/ IssueContains(i, "invalid_chunk")
                                     \/ IssueContains(i, "missing_citations"))
         IN  IF validation_issues # <<>>
             THEN IF critical # <<>> THEN "low" ELSE "medium"
             ELSE IF complete_citations /\ retrieval_chunk_count >= 3 THEN "high"
             ELSE IF bullets_with_citations >= total_bullets THEN "medium"
             ELSE "low"

(***************************************************************************)
(* run_full_summary_pipeline (src/backend/summarization.py)                *)
(***************************************************************************)
SumChunk(page_number, index, text, name) ==
    WithSection(QaChunk(page_number, index, text), name)

\* what retrieve_for_section can return for a section: sorted by
\* (page_number, chunk_id), every hit tagged with the section
Retrievals(name) ==
    { <<>>,
      <<SumChunk(3, 0, " ", name)>>,
      <<SumChunk(1, 2, "Copay $25.", name)>>,
      <<SumChunk(1, 10, "Deductible is $500.", name), SumChunk(1, 2, "Copay $25.", name),
        SumChunk(2, 0, "Referrals required.", name)>> }

\* the sections the document has something indexed for
LiveSections == {CORE_SECTIONS[1], CORE_SECTIONS[Len(CORE_SECTIONS)]}

SectionIndexes ==
    UNION { { [name \in Range(CORE_SECTIONS) |-> IF name = live THEN r ELSE <<>>]
              : r \in Retrievals(live) } : live \in LiveSections }

SectionSummaryWithConfidence(section_out, confidence, validation_issues) ==
    [section_name |-> section_out.section_name, present |-> section_out.present,
     bullets |-> section_out.bullets, not_found_message |-> section_out.not_found_message,
     confidence |-> confidence, validation_issues |-> validation_issues]

InitSum ==
    /\ sp_index \in SectionIndexes
    /\ sp_term_map \in TermMaps
    /\ sp_pc = "loop"
    /\ sp_i = 1
    /\ sp_chunks = <<>>
    /\ sp_parsed = JNone
    /\ sp_section_out = <<>>
    /\ sections_with_confidence = <<>>
    /\ sp_summary = <<>>
    /\ sp_llm_calls = <<>>
    /\ OthersIdleSum

\* chunks = retrieve_for_section(...); section_out = summarize_section(...)
SumSection ==
    /\ sp_pc = "loop"
    /\ LET name == CORE_SECTIONS[sp_i]
           chunk_list == sp_index[name]
       IN  \E raw \in (IF CallsGenerator(chunk_list) THEN SumCompletions
                       ELSE {NoCompletion}) :
               /\ sp_chunks' = chunk_list
               /\ sp_parsed' = _parse_llm_json(raw)
               /\ sp_llm_calls' = IF CallsGenerator(chunk_list) THEN <<raw>> ELSE <<>>
               /\ IF SummarizeRaises(chunk_list, raw)
                  THEN /\ sp_pc' = "raised"
                       /\ UNCHANGED sp_section_out
                  ELSE /\ sp_pc' = "score"
                       /\ sp_section_out' =
                            summarize_section(name, chunk_list, raw, sp_term_map,
                                              "standard")
    /\ UNCHANGED <<sp_index, sp_term_map, sp_i, sections_with_confidence, sp_summary>>
    /\ UNCHANGED notSumVars

\* validate_section_summary, confidence_for_section, append
SumScore ==
    /\ sp_pc = "score"
    /\ LET validation_issues ==
                validate_section_summary(sp_section_out, AllowedIds(sp_chunks),
                                         ValidPageNumbers(sp_chunks), "standard")
           confidence ==
                confidence_for_section(sp_section_out, validation_issues, Len(sp_chunks))
       IN  sections_with_confidence' =
                Append(sections_with_confidence,
                       SectionSummaryWithConfidence(sp_section_out, confidence,
                                                    validation_issues))
    /\ sp_i' = sp_i + 1
    /\ sp_pc' = IF sp_i = Len(CORE_SECTIONS) THEN "save" ELSE "loop"
    /\ UNCHANGED <<sp_llm_calls, sp_index, sp_term_map, sp_chunks, sp_parsed, sp_section_out, sp_summary>>
    /\ UNCHANGED notSumVars

\* PolicySummaryOutput(...), storage.save_policy_summary, return
SumSave ==
    /\ sp_pc = "save"
    /\ sp_summary' = <<[doc_id |-> "doc-1", sections |-> sections_with_confidence]>>
    /\ sp_pc' = "done"
    /\ UNCHANGED <<sp_llm_calls, sp_index, sp_term_map, sp_i, sp_chunks, sp_parsed, sp_section_out,
                   sections_with_confidence>>
    /\ UNCHANGED notSumVars

NextSum ==
    \/ SumSection
    \/ SumScore
    \/ SumSave

SpecSum == InitSum /\ [][NextSum]_vars

(***************************************************************************)
(* Properties of the chunker, checked under SpecChunk                      *)
(***************************************************************************)
RECURSIVE ParseDecimal(_)
ParseDecimal(ds) ==
    IF ds = <<>> THEN 0
    ELSE ParseDecimal(SubSeq(ds, 1, Len(ds) - 1)) * 10 + (ds[Len(ds)] - 48)

\* the page and the index written in an id of the form c_<page>_<index>
ParseChunkId(id) ==
    LET rest == SubSeq(id, 3, Len(id))
        us   == CHOOSE k \in 1..Len(rest) : rest[k] = 95
    IN  [page  |-> ParseDecimal(SubSeq(rest, 1, us - 1)),
         index |-> ParseDecimal(SubSeq(rest, us + 1, Len(rest)))]

\* the sentences a chunk text is made of
SentencesOf(text) == SelectSeq(text, LAMBDA it : it # WS)

\* how many chunks before position i of cs carry page number p
EarlierOnPage(cs, i, p) == Cardinality({j \in 1..(i - 1) : cs[j].page_number = p})

IdsSequential(cs) ==
    \A i \in 1..Len(cs) :
        /\ SubSeq(cs[i].chunk_id, 1, 2) = <<99, 95>>
        /\ ParseChunkId(cs[i].chunk_id) =
               [page |-> cs[i].page_number,
                index |-> EarlierOnPage(cs, i, cs[i].page_number)]

\* C5: the chunks of one page carry the ids c_{page}_0, c_{page}_1, ... in
\* emission order (the page-local index starts at 0 and grows by exactly 1),
\* and the page number written in an id is the chunk's page_number.
C5_ChunkIdsSequential == IdsSequential(chunks) /\ IdsSequential(all_chunks)

C5_Witness ==
    /\ cpc = "done"
    /\ \E i \in 1..Len(all_chunks) :
          /\ all_chunks[i].chunk_id = <<99, 95, 50, 95, 50>>
          /\ all_chunks[i].page_number = 2

\* the positions in the input of the pages that carry the page number of c
PagesOf(c) == {k \in 1..Len(pages) : pages[k].page_number = c.page_number}

IsContiguousSub(x, s) ==
    \E a \in 1..(Len(s) + 1) : a + Len(x) - 1 <= Len(s) /\ SubSeq(s, a, a + Len(x) - 1) = x

\* C6: no chunk spans two pages: each chunk is built only of sentences of the
\* one input page whose page_number it carries, and the chunks appear grouped
\* by page, in the order the pages were given.
C6_SinglePageChunks ==
    \A i \in 1..Len(all_chunks) :
        LET c == all_chunks[i]
        IN  /\ Cardinality(PagesOf(c)) = 1
            /\ \A k \in PagesOf(c) :
                   /\ k < page_i
                   /\ IsContiguousSub(SentencesOf(c.chunk_text),
                                      SentencesOf(pages[k].text))
                   /\ \A j \in (i + 1)..Len(all_chunks) :
                          \A k2 \in PagesOf(all_chunks[j]) : k <= k2

C6_Witness ==
    /\ cpc = "done"
    /\ Len(pages) = 2
    /\ pages[1].page_number > pages[2].page_number
    /\ SentencesOf(pages[1].text) # <<>>
    /\ SentencesOf(pages[2].text) # <<>>
    /\ Len(all_chunks) >= 3

RECURSIVE SumApproxTokens(_)
SumApproxTokens(ss) ==
    IF ss = <<>> THEN 0 ELSE _approx_tokens(<<Head(ss)>>) + SumApproxTokens(Tail(ss))

\* the shortest non-empty suffix of ss whose summed approximate tokens reach
\* OVERLAP_TOKENS, or ss itself when no suffix reaches it
ShortestReachingSuffix(ss) ==
    LET reach == {k \in 1..Len(ss) :
                     SumApproxTokens(SubSeq(ss, Len(ss) - k + 1, Len(ss))) >= OVERLAP_TOKENS}
    IN  IF reach = {} THEN ss
        ELSE LET k == CHOOSE x \in reach : \A y \in reach : x <= y
             IN  SubSeq(ss, Len(ss) - k + 1, Len(ss))

OverlapCarried(cs) ==
    \A i \in 1..(Len(cs) - 1) :
        cs[i].page_number = cs[i + 1].page_number =>
            LET ov == ShortestReachingSuffix(SentencesOf(cs[i].chunk_text))
            IN  /\ ov # <<>>
                /\ IsSuffix(ov, SentencesOf(cs[i].chunk_text))
                /\ IsPrefix(ov, SentencesOf(cs[i + 1].chunk_text))

\* C7: when a chunk is closed because the next sentence would exceed
\* MAX_TOKENS, the next chunk of the page begins with a non-empty run of
\* sentences that is a suffix of the closed chunk: the shortest suffix whose
\* summed approximate tokens reach OVERLAP_TOKENS, or the whole closed chunk.
C7_OverlapIsSuffix ==
    /\ OverlapCarried(all_chunks)
    /\ OverlapCarried(chunks)
    /\ (cpc = "sentences" /\ chunks # <<>>) =>
           IsPrefix(ShortestReachingSuffix(SentencesOf(chunks[Len(chunks)].chunk_text)),
                    current)

C7_Witness ==
    /\ cpc = "done"
    /\ \E i \in 1..(Len(all_chunks) - 1) :
          /\ all_chunks[i].page_number = all_chunks[i + 1].page_number
          /\ Len(SentencesOf(all_chunks[i].chunk_text)) = 3
          /\ Len(ShortestReachingSuffix(SentencesOf(all_chunks[i].chunk_text))) = 2

ChunksOfPage(k) ==
    SelectSeq(all_chunks, LAMBDA c : c.page_number = pages[k].page_number)

\* C8: chunk_pages is total over pages: every page yields at least one chunk,
\* and a page whose text is empty or whitespace-only yields exactly one chunk,
\* with id c_{page}_0 and empty chunk_text.
C8_EveryPageYieldsAChunk ==
    \A k \in 1..Len(pages) :
        (cpc = "done" \/ k < page_i) =>
            /\ Len(ChunksOfPage(k)) >= 1
            /\ SentencesOf(pages[k].text) = <<>> =>
                   /\ Len(ChunksOfPage(k)) = 1
                   /\ ChunksOfPage(k)[1].chunk_id =
                          <<99, 95>> \o Decimal(pages[k].page_number) \o <<95, 48>>
                   /\ ChunksOfPage(k)[1].chunk_text = <<>>

C8_Witness ==
    /\ cpc = "done"
    /\ Len(pages) = 2
    /\ pages[1].text = <<WS, WS>>
    /\ SentencesOf(pages[2].text) # <<>>
    /\ Len(all_chunks) >= 2

(***************************************************************************)
(* Properties of the retriever, checked under SpecRetr                     *)
(***************************************************************************)
\* every hit the sub-queries have returned for chunk id cid
Occurrences(cid) == {h \in returned : h.chunk_id = cid}

PositionsOf(cid) == {i \in 1..Len(r_result) : r_result[i].chunk_id = cid}

\* C9: a chunk id returned by several sub-queries is in the merged result
\* exactly once, and when its occurrences all carry a distance the entry kept
\* is an occurrence with the smallest of them, whatever the order in which the
\* sub-queries returned it; the returned list holds that entry, at most once,
\* and exactly once when nothing is cut off.
C9_MergeKeepsSmallestDistance ==
    \A cid \in {h.chunk_id : h \in returned} :
        /\ cid \in DOMAIN seen
        /\ (\A h \in Occurrences(cid) : h.distance # NoDistance) =>
               /\ \A h \in Occurrences(cid) : seen[cid].distance[1] <= h.distance[1]
               /\ \E h \in Occurrences(cid) : seen[cid] = WithSection(h, section_name)
        /\ rpc = "done" =>
               /\ Cardinality(PositionsOf(cid)) <= 1
               /\ \A i \in PositionsOf(cid) : r_result[i] = seen[cid]
               /\ Cardinality(DOMAIN seen) <= max_chunks =>
                      Cardinality(PositionsOf(cid)) = 1

C9_Witness ==
    /\ rpc = "done"
    /\ \E cid \in DOMAIN seen :
          /\ {h.distance : h \in Occurrences(cid)} = {<<1>>, <<2>>}
          /\ \E i \in PositionsOf(cid) : r_result[i].distance = <<1>>

KeptPositions(candidates, allowed_chunk_ids) ==
    {i \in 1..Len(candidates) :
        /\ candidates[i].type = "dict"
        /\ candidates[i].page.type = "int"
        /\ candidates[i].page.v >= 1
        /\ candidates[i].chunk_id.type = "str"
        /\ candidates[i].chunk_id.v \in allowed_chunk_ids}

\* C1: _validate_citations returns exactly the candidates whose page is an
\* integer >= 1 and whose chunk_id is in the allow-set, in their original
\* order, each with its own page and chunk_id: the k-th kept candidate is the
\* k-th element of the result and the result holds nothing else.
C1_ValidateCitationsExactSubsequence ==
    qa_pc = "classify" =>
        LET candidates == qa_parsed.citations
            K == KeptPositions(candidates, qa_allowed_ids)
            Rank(i) == Cardinality({k \in K : k <= i})
        IN  /\ Len(qa_citations) = Cardinality(K)
            /\ \A i \in K :
                    qa_citations[Rank(i)] =
                        [page |-> candidates[i].page.v,
                         chunk_id |-> candidates[i].chunk_id.v]

\* two candidates, one kept, the other dropped for its page 0 although its
\* chunk_id is allowed
C1_Witness ==
    /\ qa_pc = "classify"
    /\ Len(qa_parsed.citations) = 2
    /\ Len(qa_citations) = 1
    /\ \E i \in 1..2 :
            /\ qa_parsed.citations[i].type = "dict"
            /\ qa_parsed.citations[i].page.type = "int"
            /\ qa_parsed.citations[i].page.v <= 0
            /\ qa_parsed.citations[i].chunk_id.v \in qa_allowed_ids

\* C4: a response of ask that carries no validated citation is never
\* classified "answerable".
C4_UncitedNeverAnswerable ==
    (qa_pc = "done" /\ qa_response.citations = <<>>) =>
        qa_response.answer_type # "answerable"

(***************************************************************************)
(* Properties of the summary pipeline, checked under SpecSum               *)
(***************************************************************************)
\* the generator's output names a chunk that was not retrieved, or a page < 1
BadReference(c, chunk_list) ==
    /\ c.type = "dict"
    /\ c.page.type = "int"
    /\ c.chunk_id.type = "str"
    /\ \/ c.chunk_id.v \notin AllowedIds(chunk_list)
       \/ c.page.v < 1

BadReferences(parsed, chunk_list) ==
    IF parsed.kind # "object" THEN {}
    ELSE UNION { { parsed.bullets[i].citations[j] :
                     j \in {k \in 1..Len(parsed.bullets[i].citations) :
                              BadReference(parsed.bullets[i].citations[k], chunk_list)} }
                 : i \in 1..Len(parsed.bullets) }

\* the section the loop has just appended
LastSection == sections_with_confidence[Len(sections_with_confidence)]

JustScored == sp_pc \in {"loop", "save"} /\ sections_with_confidence # <<>>

\* C2: in run_full_summary_pipeline, when the generator's output for a section
\* cites a chunk_id outside the retrieved set or a page < 1, the citation is
\* not in the section's bullets, the section's validation_issues is not
\* empty, and the section's confidence is not "high".
C2_BadCitationRecordedAndDegrades ==
    (JustScored /\ BadReferences(sp_parsed, sp_chunks) # {}) =>
        /\ \A c \in BadReferences(sp_parsed, sp_chunks) :
              \A i \in 1..Len(LastSection.bullets) :
                \A j \in 1..Len(LastSection.bullets[i].citations) :
                    LastSection.bullets[i].citations[j] # Citation(c.page.v, c.chunk_id.v)
        /\ LastSection.validation_issues # <<>>
        /\ LastSection.confidence # "high"

\* C3: what summarize_section returns has no bullets when present is false;
\* when present is true it has at least one bullet, every bullet has at least
\* one citation, and every citation names a chunk that was passed in.
C3_SectionSummaryWellFormed ==
    sp_pc = "score" =>
        /\ ~ sp_section_out.present => sp_section_out.bullets = <<>>
        /\ sp_section_out.present =>
              /\ sp_section_out.bullets # <<>>
              /\ \A i \in 1..Len(sp_section_out.bullets) :
                    /\ sp_section_out.bullets[i].citations # <<>>
                    /\ \A j \in 1..Len(sp_section_out.bullets[i].citations) :
                          \E k \in 1..Len(sp_chunks) :
                              sp_chunks[k].chunk_id =
                                  sp_section_out.bullets[i].citations[j].chunk_id

\* the generator returned two bullets, one of them with citations that were
\* all dropped; the section is present with the other bullet alone
C3_Witness ==
    /\ sp_pc = "score"
    /\ sp_parsed.kind = "object"
    /\ Len(sp_parsed.bullets) = 2
    /\ sp_parsed.bullets[1].citations # <<>>
    /\ sp_parsed.bullets[2].citations # <<>>
    /\ sp_section_out.present
    /\ Len(sp_section_out.bullets) = 1

(***************************************************************************)
(* Document order of the retrieved chunks, checked under SpecRetr          *)
(***************************************************************************)
\* C11: retrieve_for_section returns chunks in document order: of two
\* returned chunks the one on the lower page comes first, and on the same
\* page the one with the smaller page-local index comes first.
C11_DocumentOrder ==
    rpc = "done" =>
        \A i, j \in 1..Len(r_result) :
            i < j =>
                \/ r_result[i].page_number < r_result[j].page_number
                \/ /\ r_result[i].page_number = r_result[j].page_number
                   /\ ParseChunkId(r_result[i].chunk_id).index
                        < ParseChunkId(r_result[j].chunk_id).index

(***************************************************************************)
(* Faithfulness (src/evaluation.py).  A text is a sequence of lexemes: a   *)
(* word (a maximal run of letters), a number (a maximal run of digits), a  *)
(* full stop, a space or another symbol.  Words and numbers never touch.   *)
(***************************************************************************)
Word(s, lowered) == [k |-> "word", v |-> s, lower |-> lowered]

Digits(s) == [k |-> "num", v |-> s, lower |-> s]

FullStop == [k |-> "dot", v |-> ".", lower |-> "."]

Space == [k |-> "sp", v |-> " ", lower |-> " "]

Dollar == [k |-> "sym", v |-> "$", lower |-> "$"]

\* set(re.findall(r"[a-z0-9]+", text.lower()))
_normalize_tokens(text) ==
    {text[i].lower : i \in {j \in 1..Len(text) : text[j].k \in {"word", "num"}}}

\* re.findall(r"\d+\.?\d*", text): a match is the digits, then a full stop if
\* one follows, then the digits after that full stop if there are any
RECURSIVE FindNumbers(_)
FindNumbers(text) ==
    IF text = <<>> THEN {}
    ELSE IF text[1].k # "num" THEN FindNumbers(Tail(text))
    ELSE IF Len(text) >= 2 /\ text[2].k = "dot"
         THEN IF Len(text) >= 3 /\ text[3].k = "num"
              THEN {<<text[1].v, ".", text[3].v>>}
                   \cup FindNumbers(SubSeq(text, 4, Len(text)))
              ELSE {<<text[1].v, ".">>} \cup FindNumbers(SubSeq(text, 3, Len(text)))
         ELSE {<<text[1].v>>} \cup FindNumbers(Tail(text))

_extract_numbers(text) == FindNumbers(text)

\* len(bullet_tokens & chunk_tokens) / len(bullet_tokens) >= 0.15, or every
\* number of the bullet is a number of the chunk
_chunk_supports_bullet(bullet_text, chunk_text) ==
    LET bullet_tokens == _normalize_tokens(bullet_text)
        chunk_tokens == _normalize_tokens(chunk_text)
        bullet_nums == _extract_numbers(bullet_text)
        chunk_nums == _extract_numbers(chunk_text)
    IN  \/ bullet_tokens = {}
        \/ 100 * Cardinality(bullet_tokens \cap chunk_tokens)
              >= 15 * Cardinality(bullet_tokens)
        \/ bullet_nums # {} /\ bullet_nums \subseteq chunk_nums

\* "The deductible is $500."
BulletDeductible ==
    <<Word("The", "the"), Space, Word("deductible", "deductible"), Space,
      Word("is", "is"), Space, Dollar, Digits("500"), FullStop>>

\* "You pay $500 before your plan starts sharing costs."
BulletAmountInside ==
    <<Word("You", "you"), Space, Word("pay", "pay"), Space, Dollar, Digits("500"), Space,
      Word("before", "before"), Space, Word("your", "your"), Space, Word("plan", "plan"),
      Space, Word("starts", "starts"), Space, Word("sharing", "sharing"), Space,
      Word("costs", "costs"), FullStop>>

\* "Before your plan starts sharing costs you pay $500."
BulletAmountLast ==
    <<Word("Before", "before"), Space, Word("your", "your"), Space, Word("plan", "plan"),
      Space, Word("starts", "starts"), Space, Word("sharing", "sharing"), Space,
      Word("costs", "costs"), Space, Word("you", "you"), Space, Word("pay", "pay"),
      Space, Dollar, Digits("500"), FullStop>>

\* "Referrals are needed."
BulletReferrals ==
    <<Word("Referrals", "referrals"), Space, Word("are", "are"), Space,
      Word("needed", "needed"), FullStop>>

BulletTexts ==
    {<<>>, BulletDeductible, BulletAmountInside, BulletAmountLast, BulletReferrals}

\* "Deductible $500 applies annually."
ChunkDeductible ==
    <<Word("Deductible", "deductible"), Space, Dollar, Digits("500"), Space,
      Word("applies", "applies"), Space, Word("annually", "annually"), FullStop>>

\* "Copay $25."
ChunkCopay == <<Word("Copay", "copay"), Space, Dollar, Digits("25"), FullStop>>


(***************************************************************************)
(* compute_faithfulness (src/evaluation.py)                                *)
(***************************************************************************)
\* one line of chunks.jsonl
StoredChunk(page_number, index, text) ==
    [chunk_id |-> FormatChunkId(page_number, index), page_number |-> page_number,
     doc_id |-> "doc-1", chunk_text |-> text]

StoredChunks == <<StoredChunk(1, 10, ChunkDeductible), StoredChunk(1, 2, ChunkCopay)>>

\* the citations a persisted bullet can carry: of a stored chunk or of none
StoredCitations ==
    { Citation(1, FormatChunkId(1, 10)), Citation(1, FormatChunkId(1, 2)),
      Citation(9, FormatChunkId(9, 9)) }

StoredCitationLists == UNION { [1..n -> StoredCitations] : n \in 0..MaxCites }

StoredBullets ==
    { BulletWithCitations(t, cs) : t \in BulletTexts, cs \in StoredCitationLists }

GoodBullet == BulletWithCitations(BulletDeductible, <<Citation(1, FormatChunkId(1, 10))>>)

UncitedBullet == BulletWithCitations(BulletReferrals, <<>>)

StoredSection(name, present, bullets) ==
    [section_name |-> name, present |-> present, bullets |-> bullets]

\* the summaries Policy_summary.json can hold
StoredSummaries ==
    { << s1, s2 >> :
        s1 \in {StoredSection(CORE_SECTIONS[2], FALSE, <<>>),
                StoredSection(CORE_SECTIONS[2], TRUE, <<>>)}
               \cup { StoredSection(CORE_SECTIONS[2], TRUE, <<b>>) : b \in StoredBullets }
               \cup { StoredSection(CORE_SECTIONS[2], TRUE, <<b, GoodBullet>>)
                      : b \in StoredBullets }
               \cup { StoredSection(CORE_SECTIONS[2], TRUE, <<UncitedBullet, b>>)
                      : b \in StoredBullets },
        s2 \in {StoredSection(CORE_SECTIONS[3], FALSE, <<>>),
                StoredSection(CORE_SECTIONS[3], TRUE, <<>>),
                StoredSection(CORE_SECTIONS[3], TRUE, <<GoodBullet>>)} }

\* round(n / d, 4), in units of 0.0001
Round4(n, d) == (2 * 10000 * n + d) \div (2 * d)

\* chunks_by_id.get(chunk_id): <<>> or <<chunk>>; a later line of the file
\* replaces an earlier one with the same id
ChunksByIdGet(chunks_list, chunk_id) ==
    LET at == {i \in 1..Len(chunks_list) : chunks_list[i].chunk_id = chunk_id}
    IN  IF at = {} THEN <<>>
        ELSE <<chunks_list[CHOOSE i \in at : \A j \in at : j <= i]>>

\* for cit in b.citations: the first citation whose chunk is missing or does
\* not support the bullet decides, and ends the loop
CitationsSupport(b, chunks_list) ==
    LET failing == {i \in 1..Len(b.citations) :
                      LET ch == ChunksByIdGet(chunks_list, b.citations[i].chunk_id)
                      IN  ch = <<>> \/ ~ _chunk_supports_bullet(b.text, ch[1].chunk_text)}
    IN  IF failing = {} THEN [supported |-> TRUE, reason |-> "supported", arg |-> <<>>]
        ELSE LET i == CHOOSE k \in failing : \A j \in failing : k <= j
                 cid == b.citations[i].chunk_id
             IN  IF ChunksByIdGet(chunks_list, cid) = <<>>
                 THEN [supported |-> FALSE, reason |-> "chunk_missing:{cid}", arg |-> cid]
                 ELSE [supported |-> FALSE, reason |-> "low_overlap", arg |-> <<>>]

\* the body of "for b in sec.bullets" for one bullet
UnitDetail(name, b, chunks_list) ==
    LET d == IF b.citations = <<>>
             THEN [supported |-> FALSE, reason |-> "no_citations", arg |-> <<>>]
             ELSE CitationsSupport(b, chunks_list)
    IN  [section |-> name, text_preview |-> b.text, supported |-> d.supported,
         reason |-> d.reason, arg |-> d.arg]

FaithfulnessError(error) ==
    [doc_id |-> "doc-1", error |-> <<error>>, faithfulness_score |-> 0,
     hallucination_rate |-> 0, contradiction_rate |-> 0, total_units |-> 0,
     supported_units |-> 0, unit_details |-> <<>>]

\* a loader that goes through the directory-making helper (_doc_dir) instead
get_document_dir_Mkdir(dir_exists) == TRUE

\* storage.get_document_dir: the path is computed, the directory is left as it is
\* (dir_exists: whether the directory exists; the result: whether it exists afterwards)
get_document_dir(dir_exists) == dir_exists

InitFaith ==
    /\ fa_summary_file \in {<<>>} \cup {<<s>> : s \in StoredSummaries}
    /\ fa_chunks_file \in {<<>>, <<StoredChunks>>}
    /\ fa_dir_exists \in (IF fa_summary_file # <<>> \/ fa_chunks_file # <<>>
                          THEN {TRUE} ELSE BOOLEAN)
    /\ fa_pc = "load"
    /\ fa_sec_i = 1
    /\ total_units = 0
    /\ supported_units = 0
    /\ unsupported = 0
    /\ unit_details = <<>>
    /\ fa_result = <<>>
    /\ OthersIdleFaith

\* load_policy_summary, load_chunks, chunks_by_id, the counters
FaithLoad ==
    /\ fa_pc = "load"
    /\ IF fa_summary_file = <<>>
       THEN /\ fa_result' = FaithfulnessError("policy_summary_not_found")
            /\ fa_pc' = "done"
       ELSE IF fa_chunks_file = <<>>
       THEN /\ fa_result' = FaithfulnessError("chunks_not_found")
            /\ fa_pc' = "done"
       ELSE /\ fa_pc' = "sections"
            /\ UNCHANGED fa_result
    /\ fa_dir_exists' = get_document_dir(fa_dir_exists)
    /\ UNCHANGED <<fa_summary_file, fa_chunks_file, fa_sec_i, total_units,
                   supported_units, unsupported, unit_details>>
    /\ UNCHANGED notFaithVars

\* one turn of "for sec in summary.sections", with its loop over the bullets
FaithSection ==
    /\ fa_pc = "sections"
    /\ fa_sec_i <= Len(fa_summary_file[1])
    /\ LET sec == fa_summary_file[1][fa_sec_i]
           details == [i \in 1..Len(sec.bullets) |->
                          UnitDetail(sec.section_name, sec.bullets[i], fa_chunks_file[1])]
           n_supported == Cardinality({i \in 1..Len(details) : details[i].supported})
       IN  IF ~ sec.present \/ sec.bullets = <<>>
           THEN UNCHANGED <<total_units, supported_units, unsupported, unit_details>>
           ELSE /\ total_units' = total_units + Len(sec.bullets)
                /\ supported_units' = supported_units + n_supported
                /\ unsupported' = unsupported + (Len(details) - n_supported)
                /\ unit_details' = unit_details \o details
    /\ fa_sec_i' = fa_sec_i + 1
    /\ UNCHANGED <<fa_summary_file, fa_chunks_file, fa_dir_exists, fa_pc, fa_result>>
    /\ UNCHANGED notFaithVars

\* total_units = total_units or 1; return {...}
FaithReturn ==
    /\ fa_pc = "sections"
    /\ fa_sec_i > Len(fa_summary_file[1])
    /\ LET total == IF total_units = 0 THEN 1 ELSE total_units
       IN  /\ total_units' = total
           /\ fa_result' =
                [doc_id |-> "doc-1", error |-> <<>>,
                 faithfulness_score |-> Round4(supported_units, total),
                 hallucination_rate |-> Round4(unsupported, total),
                 contradiction_rate |-> 0, total_units |-> total,
                 supported_units |-> supported_units, unit_details |-> unit_details]
    /\ fa_pc' = "done"
    /\ UNCHANGED <<fa_summary_file, fa_chunks_file, fa_dir_exists, fa_sec_i,
                   supported_units, unsupported, unit_details>>
    /\ UNCHANGED notFaithVars

NextFaith ==
    \/ FaithLoad
    \/ FaithSection
    \/ FaithReturn

SpecFaith == InitFaith /\ [][NextFaith]_vars

(***************************************************************************)
(* Properties of compute_faithfulness, checked under SpecFaith             *)
(***************************************************************************)
\* the bullets compute_faithfulness examines: those of the present sections,
\* in order
RECURSIVE UnitsOf(_)
UnitsOf(sections) ==
    IF sections = <<>> THEN <<>>
    ELSE (IF Head(sections).present THEN Head(sections).bullets ELSE <<>>)
         \o UnitsOf(Tail(sections))

FaithReturned == fa_pc = "done" /\ fa_result.error = <<>>

\* C12: a bullet of a present section is counted as supported exactly when it
\* has a citation and at least one of its citations names a stored chunk that
\* passes the overlap or the numeric test; supported plus unsupported is the
\* number of bullets examined.
C12_SupportedIffSomeCitationPasses ==
    FaithReturned =>
        LET units == UnitsOf(fa_summary_file[1])
        IN  /\ Len(fa_result.unit_details) = Len(units)
            /\ \A k \in 1..Len(units) :
                 fa_result.unit_details[k].supported
                 <=> /\ units[k].citations # <<>>
                     /\ \E i \in 1..Len(units[k].citations) :
                          LET ch == ChunksByIdGet(fa_chunks_file[1],
                                                  units[k].citations[i].chunk_id)
                          IN  /\ ch # <<>>
                              /\ _chunk_supports_bullet(units[k].text, ch[1].chunk_text)
            /\ fa_result.supported_units + unsupported = Len(units)

\* C13: for a persisted summary with no bullet in any present section,
\* compute_faithfulness returns score 0.0 and total_units 0.
C13_NoBulletsGivesZeroUnits ==
    (FaithReturned /\ UnitsOf(fa_summary_file[1]) = <<>>) =>
        /\ fa_result.faithfulness_score = 0
        /\ fa_result.total_units = 0

\* the numbers a reader sees in a text: digits, or digits.digits
RECURSIVE NumbersWritten(_)
NumbersWritten(text) ==
    IF text = <<>> THEN {}
    ELSE IF text[1].k # "num" THEN NumbersWritten(Tail(text))
    ELSE IF Len(text) >= 3 /\ text[2].k = "dot" /\ text[3].k = "num"
         THEN {<<text[1].v, ".", text[3].v>>}
              \cup NumbersWritten(SubSeq(text, 4, Len(text)))
         ELSE {<<text[1].v>>} \cup NumbersWritten(Tail(text))

\* C14: a bullet that holds a number, cited against one stored chunk in which
\* every number of the bullet occurs, is judged supported, whatever the word
\* overlap is.
C14_NumericRuleSupports ==
    FaithReturned =>
        LET units == UnitsOf(fa_summary_file[1])
        IN  \A k \in 1..Len(units) :
              (/\ Len(units[k].citations) = 1
               /\ ChunksByIdGet(fa_chunks_file[1], units[k].citations[1].chunk_id) # <<>>
               /\ NumbersWritten(units[k].text) # {}
               /\ NumbersWritten(units[k].text) \subseteq
                    NumbersWritten(
                      ChunksByIdGet(fa_chunks_file[1],
                                    units[k].citations[1].chunk_id)[1].chunk_text))
              => fa_result.unit_details[k].supported


(***************************************************************************)
(* The confidence functions called on their own                            *)
(* (src/evaluation.py, src/backend/evaluation.py)                          *)
(***************************************************************************)
\* src/backend/evaluation.py: confidence_for_section(section_out); the issues
\* are read from the section, and the retrieval is not an argument
backend_confidence_for_section(section_out) ==
    LET issues == section_out.validation_issues
    IN  IF ~ section_out.present \/ section_out.bullets = <<>> THEN "low"
        ELSE LET total_bullets == Len(section_out.bullets)
                 bullets_with_citations ==
                    Len(SelectSeq(section_out.bullets, LAMBDA b : b.citations # <<>>))
                 critical ==
                    SelectSeq(issues, LAMBDA i : \/ IssueContains(i, "invalid")
                                                 \/ IssueContains(i, "missing"))
             IN  IF issues # <<>>
                 THEN IF critical # <<>> THEN "low" ELSE "medium"
                 ELSE IF bullets_with_citations >= total_bullets THEN "high"
                 ELSE "medium"

\* lists of at most n elements of S
ListsUpTo(S, n) == UNION { [1..k -> S] : k \in 0..n }

\* the strings validate_qa_response writes, and the bare "invalid_page_citation"
QaIssues ==
    { Issue("disclaimer_required", <<>>),
      Issue("answerable_but_no_citations", <<>>),
      Issue("sentence_count_exceeds_6", <<>>),
      Issue("invalid_page_citation:{p}", <<2>>),
      Issue("invalid_page_citation", <<>>) }

\* the strings validate_section_summary writes
SectionIssues ==
    { Issue("bullet_count_exceeds_{max_b}", <<6>>),
      Issue("bullet_{i}_missing_citations", <<1>>),
      Issue("bullet_{i}_invalid_page:{page}", <<1, 9>>),
      Issue("bullet_{i}_invalid_chunk_id:{cid}", <<1>> \o FormatChunkId(9, 9)) }

AnswerTypes == {"answerable", "not_found", "ambiguous", "conflict", "partial"}

ConfBullets ==
    { BulletWithCitations(BulletReferrals, cs)
        : cs \in {<<>>, <<Citation(1, FormatChunkId(1, 2))>>} }

QaCalls ==
    { [op |-> "qa", answer_type |-> t, citation_count |-> n, validation_issues |-> is,
       retrieval_chunk_count |-> r, retrieval_strong |-> g]
        : t \in AnswerTypes, n \in 0..MaxCount, is \in ListsUpTo(QaIssues, MaxIssues),
          r \in 0..MaxCount, g \in BOOLEAN }

SectionCalls ==
    { [op |-> "section", present |-> p, bullets |-> bs, validation_issues |-> is,
       retrieval_chunk_count |-> r]
        : p \in BOOLEAN, bs \in ListsUpTo(ConfBullets, MaxConfBullets),
          is \in ListsUpTo(SectionIssues, MaxIssues), r \in 0..MaxCount }

\* the section object of a call, as each module reads it
SectionOf(call) ==
    [present |-> call.present, bullets |-> call.bullets,
     validation_issues |-> call.validation_issues]

InitConf ==
    /\ OthersIdleConf
    /\ cf_call \in QaCalls \cup SectionCalls
    /\ cf_pc = "call"
    /\ cf_result = ""

\* confidence_for_qa of src/evaluation.py
ConfQa ==
    /\ cf_pc = "call"
    /\ cf_call.op = "qa"
    /\ cf_result' = confidence_for_qa(cf_call.answer_type, cf_call.citation_count,
                                      cf_call.validation_issues,
                                      cf_call.retrieval_chunk_count,
                                      cf_call.retrieval_strong)
    /\ cf_pc' = "qa_done"
    /\ UNCHANGED cf_call
    /\ UNCHANGED notConfVars

\* confidence_for_section of src/evaluation.py
ConfSection ==
    /\ cf_pc = "call"
    /\ cf_call.op = "section"
    /\ cf_result' = confidence_for_section(SectionOf(cf_call), cf_call.validation_issues,
                                           cf_call.retrieval_chunk_count)
    /\ cf_pc' = "section_done"
    /\ UNCHANGED cf_call
    /\ UNCHANGED notConfVars

\* confidence_for_section of src/backend/evaluation.py
ConfSectionBackend ==
    /\ cf_pc = "call"
    /\ cf_call.op = "section"
    /\ cf_result' = backend_confidence_for_section(SectionOf(cf_call))
    /\ cf_pc' = "backend_section_done"
    /\ UNCHANGED cf_call
    /\ UNCHANGED notConfVars

NextConf == ConfQa \/ ConfSection \/ ConfSectionBackend

SpecConf == InitConf /\ [][NextConf]_vars

(***************************************************************************)
(* Properties of the confidence functions                                  *)
(***************************************************************************)
AnyIssueContains(issues, needle) ==
    \E i \in 1..Len(issues) : IssueContains(issues[i], needle)

\* the ordered table of the question/answer confidence
QaConfidenceTable(call) ==
    IF call.answer_type # "answerable" THEN "low"
    ELSE IF \/ call.citation_count = 0
            \/ call.retrieval_chunk_count = 0
            \/ AnyIssueContains(call.validation_issues, "invalid")
            \/ AnyIssueContains(call.validation_issues, "no_citations")
         THEN "low"
    ELSE IF call.validation_issues # <<>> THEN "medium"
    ELSE IF /\ call.citation_count >= 2
            /\ (call.retrieval_strong \/ call.retrieval_chunk_count >= 3)
         THEN "high"
    ELSE IF call.citation_count >= 1 THEN "medium"
    ELSE "low"

\* C15: for every combination of inputs confidence_for_qa returns what the first
\* matching rule of the ordered table gives: not answerable -> low; no citation,
\* no retrieved chunk, or an issue containing "invalid" or "no_citations" -> low;
\* any other issue -> medium; two citations and strong or >= 3 chunks -> high;
\* one citation -> medium; otherwise low.
C15_QaConfidenceFollowsTable ==
    cf_pc = "qa_done" => cf_result = QaConfidenceTable(cf_call)

SectionReturned == cf_pc \in {"section_done", "backend_section_done"}

\* C16: confidence_for_section returns "low" whenever the retrieval returned
\* zero chunks, whatever present, bullets and validation_issues are, and returns
\* "high" only for a present section in which every bullet has a citation, with
\* no validation issue and at least three retrieved chunks.
C16_SectionConfidenceNeedsRetrieval ==
    SectionReturned =>
        /\ cf_call.retrieval_chunk_count = 0 => cf_result = "low"
        /\ cf_result = "high" =>
              /\ cf_call.present
              /\ \A i \in 1..Len(cf_call.bullets) : cf_call.bullets[i].citations # <<>>
              /\ cf_call.validation_issues = <<>>
              /\ cf_call.retrieval_chunk_count >= 3


(***************************************************************************)
(* compute_completeness (src/evaluation.py)                                *)
(***************************************************************************)
\* SECTION_WEIGHTS of src/evaluation.py, in hundredths
SECTION_WEIGHTS ==
    [ name \in {"Plan Snapshot", "Cost Summary", "Covered Services",
                "Administrative Conditions", "Exclusions & Limitations",
                "Claims/Appeals & Member Rights"} |->
        CASE name = "Plan Snapshot" -> 5
          [] name = "Cost Summary" -> 35
          [] name = "Covered Services" -> 30
          [] name = "Administrative Conditions" -> 15
          [] name = "Exclusions & Limitations" -> 10
          [] name = "Claims/Appeals & Member Rights" -> 5 ]

\* SECTION_WEIGHTS.get(name, 0.0)
SectionWeightsGet(name) ==
    IF name \in DOMAIN SECTION_WEIGHTS THEN SECTION_WEIGHTS[name] ELSE 0

RECURSIVE SumOver(_, _)
SumOver(f, S) ==
    IF S = {} THEN 0
    ELSE LET x == CHOOSE y \in S : TRUE IN f[x] + SumOver(f, S \ {x})

_section_addressed(sec) ==
    IF ~ sec.present THEN TRUE
    ELSE IF sec.bullets = <<>> THEN FALSE
    ELSE \E i \in 1..Len(sec.bullets) : sec.bullets[i].citations # <<>>

\* the states of one section of a persisted summary
SectionContents ==
    { [present |-> FALSE, bullets |-> <<>>],
      [present |-> TRUE, bullets |-> <<>>],
      [present |-> TRUE, bullets |-> <<UncitedBullet>>],
      [present |-> TRUE, bullets |-> <<UncitedBullet, GoodBullet>>] }

\* the persisted summaries: the six sections of CORE_SECTIONS, in that order
CanonicalSummaries ==
    { [i \in 1..Len(CORE_SECTIONS) |->
          StoredSection(CORE_SECTIONS[i], c[i].present, c[i].bullets)]
        : c \in [1..Len(CORE_SECTIONS) -> SectionContents] }

CompletenessError ==
    [doc_id |-> "doc-1", error |-> <<"policy_summary_not_found">>,
     completeness_score |-> 0, section_scores |-> <<>>, weights |-> SECTION_WEIGHTS]

InitCompl ==
    /\ co_summary_file \in {<<>>} \cup {<<s>> : s \in CanonicalSummaries}
    /\ co_dir_exists \in (IF co_summary_file # <<>> THEN {TRUE} ELSE BOOLEAN)
    /\ co_pc = "load"
    /\ co_i = 1
    /\ section_scores = <<>>
    /\ weighted_sum = 0
    /\ co_result = <<>>
    /\ OthersIdleCompl

\* storage.load_policy_summary, and the except branch
ComplLoad ==
    /\ co_pc = "load"
    /\ co_dir_exists' = get_document_dir(co_dir_exists)
    /\ IF co_summary_file = <<>>
       THEN /\ co_result' = CompletenessError
            /\ co_pc' = "done"
       ELSE /\ co_pc' = "sections"
            /\ UNCHANGED co_result
    /\ UNCHANGED <<co_summary_file, co_i, section_scores, weighted_sum>>
    /\ UNCHANGED notComplVars

\* one turn of "for sec in summary.sections"
ComplSection ==
    /\ co_pc = "sections"
    /\ co_i <= Len(co_summary_file[1])
    /\ LET sec == co_summary_file[1][co_i]
           name == sec.section_name
           weight == SectionWeightsGet(name)
           score == IF _section_addressed(sec) THEN 1 ELSE 0
       IN  /\ section_scores' =
                 [n \in DOMAIN section_scores \cup {name} |->
                     IF n = name THEN score ELSE section_scores[n]]
           /\ weighted_sum' = weighted_sum + weight * score
    /\ co_i' = co_i + 1
    /\ UNCHANGED <<co_summary_file, co_dir_exists, co_pc, co_result>>
    /\ UNCHANGED notComplVars

\* the return after the loop
ComplReturn ==
    /\ co_pc = "sections"
    /\ co_i > Len(co_summary_file[1])
    /\ LET total_weight == SumOver(SECTION_WEIGHTS, DOMAIN SECTION_WEIGHTS)
       IN  co_result' =
              [doc_id |-> "doc-1", error |-> <<>>,
               completeness_score |-> IF total_weight # 0
                                      THEN Round4(weighted_sum, total_weight) ELSE 0,
               section_scores |-> section_scores, weights |-> SECTION_WEIGHTS]
    /\ co_pc' = "done"
    /\ UNCHANGED <<co_summary_file, co_dir_exists, co_i, section_scores, weighted_sum>>
    /\ UNCHANGED notComplVars

NextCompl == ComplLoad \/ ComplSection \/ ComplReturn

SpecCompl == InitCompl /\ [][NextCompl]_vars

(***************************************************************************)
(* Properties of compute_completeness                                      *)
(***************************************************************************)
\* the fixed weights, in hundredths, in the order of the canonical sections
CanonicalWeights == <<5, 35, 30, 15, 10, 5>>

\* addressed: marked absent, or at least one bullet with at least one citation
Addressed(sec) ==
    \/ ~ sec.present
    \/ \E i \in 1..Len(sec.bullets) : sec.bullets[i].citations # <<>>

RECURSIVE AddressedWeight(_, _)
AddressedWeight(sections, i) ==
    IF i > Len(sections) THEN 0
    ELSE (IF Addressed(sections[i]) THEN CanonicalWeights[i] ELSE 0)
         + AddressedWeight(sections, i + 1)

ComplReturned == co_pc = "done" /\ co_summary_file # <<>>

\* C17: for a persisted summary with the six canonical sections the score is
\* the sum of the fixed weights 0.05, 0.35, 0.30, 0.15, 0.10, 0.05 of exactly
\* the addressed sections (score in units of 0.0001).
C17_ScoreIsAddressedWeight ==
    ComplReturned =>
        co_result.completeness_score = 100 * AddressedWeight(co_summary_file[1], 1)


(***************************************************************************)
(* The two metrics over one document store: either compute_faithfulness or *)
(* compute_completeness is called (src/evaluation.py)                      *)
(***************************************************************************)
InitEval == InitFaith \/ InitCompl

NextEval == NextFaith \/ NextCompl

SpecEval == InitEval /\ [][NextEval]_vars

\* the call found no summary, or no chunk file, to load
FaithMissing == fa_pc = "done" /\ (fa_summary_file = <<>> \/ fa_chunks_file = <<>>)

ComplMissing == co_pc = "done" /\ co_summary_file = <<>>

\* the files and the directory of the document are what they were
StorageUntouched ==
    /\ fa_summary_file' = fa_summary_file
    /\ fa_chunks_file' = fa_chunks_file
    /\ fa_dir_exists' = fa_dir_exists
    /\ co_summary_file' = co_summary_file
    /\ co_dir_exists' = co_dir_exists

\* C18: with no persisted summary (or no chunk file) compute_completeness and
\* compute_faithfulness return a result with score 0.0 and an "error" entry,
\* they do not raise, and no step of theirs writes to the storage.
C18_MissingFilesGiveErrorResult ==
    /\ [](FaithMissing => /\ fa_result # <<>>
                          /\ fa_result.error # <<>>
                          /\ fa_result.faithfulness_score = 0)
    /\ [](ComplMissing => /\ co_result # <<>>
                          /\ co_result.error # <<>>
                          /\ co_result.completeness_score = 0)
    /\ [][StorageUntouched]_vars

C18_Witness ==
    \/ FaithMissing /\ fa_summary_file # <<>> /\ fa_result.error = <<"chunks_not_found">>
    \/ ComplMissing /\ ~ co_dir_exists /\ co_result.error # <<>>


(***************************************************************************)
(* run_ingest (src/ingestion.py, src/backend/ingestion.py)                 *)
(***************************************************************************)
RAW_PDF_FILENAME == "raw.pdf"
PAGES_JSON_FILENAME == "pages.json"
CHUNKS_JSONL_FILENAME == "chunks.jsonl"

IngestImpls == {"src/ingestion.py", "src/backend/ingestion.py"}

\* the uploads: a file fitz cannot open, a PDF without pages, pages without
\* text, text that is no policy, text that is only whitespace, a policy
PdfContents == {"unreadable", "no_pages", "no_text", "not_policy", "blank_text", "policy"}

\* exception classes: OSError for a failed write, ChromaError for the errors of
\* the vector store and the embedding service, which derive from Exception and
\* from neither ValueError nor RuntimeError
NoFault == [step |-> "none", type |-> ""]

IngestFaults ==
    {NoFault}
    \cup {[step |-> "save_extracted_pages", type |-> "OSError"],
          [step |-> "save_chunks", type |-> "OSError"]}
    \cup {[step |-> "add_chunks", type |-> t]
            : t \in {"ValueError", "RuntimeError", "OSError", "ChromaError"}}

\* isinstance(e, classes) for the classes named in the except clauses
Catches(impl, type) ==
    IF impl = "src/ingestion.py" THEN type \in {"ValueError", "RuntimeError"}
    ELSE TRUE

InitIngest ==
    /\ in_impl \in IngestImpls
    /\ in_pdf \in PdfContents
    /\ in_fault \in IngestFaults
    /\ in_pc = "save_raw_pdf"
    /\ in_dir = FALSE
    /\ in_files = {}
    /\ in_indexed = FALSE
    /\ in_exc = ""
    /\ in_raised = ""
    /\ OthersIdleIngest

\* raise inside the try block
Raise(type) ==
    /\ in_exc' = type
    /\ in_pc' = "except"

\* doc_id = generate_document_id(); save_raw_pdf: _doc_dir makes the directory
IngestSaveRaw ==
    /\ in_pc = "save_raw_pdf"
    /\ in_dir' = TRUE
    /\ in_files' = in_files \cup {RAW_PDF_FILENAME}
    /\ in_pc' = "extract_pages"
    /\ UNCHANGED <<in_impl, in_pdf, in_fault, in_indexed, in_exc, in_raised>>
    /\ UNCHANGED notIngestVars

\* extract_pages, and the checks of the pages that follow it
IngestExtract ==
    /\ in_pc = "extract_pages"
    /\ CASE in_pdf = "unreadable" -> Raise("RuntimeError")
         [] in_pdf \in {"no_pages", "no_text"} -> Raise("ValueError")
         [] in_pdf = "not_policy" /\ in_impl = "src/backend/ingestion.py" ->
                Raise("ValueError")
         [] OTHER -> in_pc' = "save_extracted_pages" /\ UNCHANGED in_exc
    /\ UNCHANGED <<in_impl, in_pdf, in_fault, in_dir, in_files, in_indexed, in_raised>>
    /\ UNCHANGED notIngestVars

\* storage.save_extracted_pages: a failed write may leave the file behind
IngestSavePages ==
    /\ in_pc = "save_extracted_pages"
    /\ IF in_fault.step = "save_extracted_pages"
       THEN /\ Raise(in_fault.type)
            /\ \E left \in BOOLEAN :
                  in_files' = IF left THEN in_files \cup {PAGES_JSON_FILENAME} ELSE in_files
       ELSE /\ in_files' = in_files \cup {PAGES_JSON_FILENAME}
            /\ in_pc' = "chunk_pages"
            /\ UNCHANGED in_exc
    /\ UNCHANGED <<in_impl, in_pdf, in_fault, in_dir, in_indexed, in_raised>>
    /\ UNCHANGED notIngestVars

\* chunk_pages, and "if not chunks"
IngestChunk ==
    /\ in_pc = "chunk_pages"
    /\ IF in_pdf = "blank_text"
       THEN Raise("ValueError")
       ELSE in_pc' = "save_chunks" /\ UNCHANGED in_exc
    /\ UNCHANGED <<in_impl, in_pdf, in_fault, in_dir, in_files, in_indexed, in_raised>>
    /\ UNCHANGED notIngestVars

\* storage.save_chunks
IngestSaveChunks ==
    /\ in_pc = "save_chunks"
    /\ IF in_fault.step = "save_chunks"
       THEN /\ Raise(in_fault.type)
            /\ \E left \in BOOLEAN :
                  in_files' = IF left THEN in_files \cup {CHUNKS_JSONL_FILENAME} ELSE in_files
       ELSE /\ in_files' = in_files \cup {CHUNKS_JSONL_FILENAME}
            /\ in_pc' = "add_chunks"
            /\ UNCHANGED in_exc
    /\ UNCHANGED <<in_impl, in_pdf, in_fault, in_dir, in_indexed, in_raised>>
    /\ UNCHANGED notIngestVars

\* storage.add_chunks
IngestIndex ==
    /\ in_pc = "add_chunks"
    /\ IF in_fault.step = "add_chunks"
       THEN Raise(in_fault.type) /\ UNCHANGED in_indexed
       ELSE in_indexed' = TRUE /\ in_pc' = "return" /\ UNCHANGED in_exc
    /\ UNCHANGED <<in_impl, in_pdf, in_fault, in_dir, in_files, in_raised>>
    /\ UNCHANGED notIngestVars

\* the except clause: the directory is removed and an error is raised, or the
\* exception is none of the clause and passes through
IngestExcept ==
    /\ in_pc = "except"
    /\ IF Catches(in_impl, in_exc)
       THEN /\ in_dir' = FALSE
            /\ in_files' = {}
            /\ in_raised' = IF in_impl = "src/ingestion.py" THEN "ValueError" ELSE in_exc
       ELSE /\ in_raised' = in_exc
            /\ UNCHANGED <<in_dir, in_files>>
    /\ in_exc' = ""
    /\ in_pc' = "raised"
    /\ UNCHANGED <<in_impl, in_pdf, in_fault, in_indexed>>
    /\ UNCHANGED notIngestVars

\* return doc_id
IngestReturn ==
    /\ in_pc = "return"
    /\ in_pc' = "returned"
    /\ UNCHANGED <<in_impl, in_pdf, in_fault, in_dir, in_files, in_indexed, in_exc,
                   in_raised>>
    /\ UNCHANGED notIngestVars

NextIngest ==
    \/ IngestSaveRaw
    \/ IngestExtract
    \/ IngestSavePages
    \/ IngestChunk
    \/ IngestSaveChunks
    \/ IngestIndex
    \/ IngestExcept
    \/ IngestReturn

SpecIngest == InitIngest /\ [][NextIngest]_vars

(***************************************************************************)
(* Properties of run_ingest                                                *)
(***************************************************************************)
\* C19: when run_ingest fails at a step after the raw PDF was saved, with
\* whatever exception type, the error reaches the caller and the document
\* directory of the generated doc_id, with its raw PDF, pages file and chunk
\* file, no longer exists.
C19_FailedIngestRemovesDirectory ==
    in_pc = "raised" => in_raised # "" /\ ~ in_dir /\ in_files = {}


(***************************************************************************)
(* The vector index: wipe_database, add_chunks, query                      *)
(* (src/backend/storage.py)                                                *)
(***************************************************************************)
\* the documents ingested one after the other
IndexDocIds == {"doc-1", "doc-2", "doc-3"}

IndexChunk(doc, page, index) ==
    [chunk_id |-> FormatChunkId(page, index), page_number |-> page,
     doc_id |-> doc, chunk_text |-> <<doc, page, index>>]

\* the chunk lists of a document: the first n chunks of its first page
IndexChunkLists(doc) ==
    { [i \in 1..n |-> IndexChunk(doc, 1, i - 1)] : n \in 0..MaxIndexChunks }

QueryTexts == {" ", "deductible"}

\* a wipe that leaves the collection it finds
wipe_database_Keep(collection) == collection

\* client.delete_collection: the collection is gone (when there is none the
\* call raises, and wipe_database passes over the exception)
wipe_database(collection) == <<>>

\* client.get_or_create_collection: the entries of the collection
_get_collection(collection) == IF collection = <<>> THEN {} ELSE collection[1]

\* collection.add(ids, documents, metadatas): an id already stored is kept as it is
CollectionAdd(entries, doc, cs) ==
    entries
    \cup { [id |-> cs[i].chunk_id, document |-> cs[i].chunk_text,
            metadata |-> [chunk_id |-> cs[i].chunk_id,
                          page_number |-> cs[i].page_number, doc_id |-> doc]]
             : i \in { j \in 1..Len(cs) :
                         /\ \A e \in entries : e.id # cs[j].chunk_id
                         /\ \A k \in 1..(j - 1) : cs[k].chunk_id # cs[j].chunk_id } }

\* collection.query(n_results = top_k, where = {"doc_id": doc}): the possible
\* rankings of at most top_k of the entries that pass the filter
CollectionQuery(entries, doc, top_k) ==
    LET matching == { e \in entries : e.metadata.doc_id = doc }
        n == IF Cardinality(matching) < top_k THEN Cardinality(matching) ELSE top_k
    IN  { r \in [1..n -> matching] : \A i, j \in 1..n : i # j => r[i] # r[j] }

\* the dict query builds of one result
QueryHit(e, rank) ==
    [chunk_id |-> e.id, page_number |-> e.metadata.page_number,
     doc_id |-> e.metadata.doc_id, chunk_text |-> e.document, distance |-> <<rank>>]

InitIndex ==
    /\ vi_collection = <<>>
    /\ vi_history = <<>>
    /\ vi_query = <<>>
    /\ vi_hits = <<>>
    /\ OthersIdleIndex

\* add_chunks(doc_id, chunks)
AddChunks ==
    /\ Len(vi_history) < MaxAdds
    /\ \E doc \in IndexDocIds :
         \E cs \in IndexChunkLists(doc) :
            IF cs = <<>>
            THEN UNCHANGED <<vi_collection, vi_history>>
            ELSE /\ vi_collection' =
                       <<CollectionAdd(_get_collection(wipe_database(vi_collection)),
                                       doc, cs)>>
                 /\ vi_history' = Append(vi_history, [doc_id |-> doc, chunks |-> cs])
    /\ vi_query' = <<>>
    /\ vi_hits' = <<>>
    /\ UNCHANGED notIndexVars

\* query(doc_id, query_text, top_k)
Query ==
    /\ \E doc \in IndexDocIds, text \in QueryTexts, top_k \in 1..MaxTopK :
         /\ vi_query' = <<[doc_id |-> doc, query_text |-> text, top_k |-> top_k]>>
         /\ IF text = " "
            THEN vi_hits' = <<>> /\ UNCHANGED vi_collection
            ELSE /\ vi_collection' = <<_get_collection(vi_collection)>>
                 /\ \E r \in CollectionQuery(_get_collection(vi_collection), doc, top_k) :
                       vi_hits' = [i \in 1..Len(r) |-> QueryHit(r[i], i)]
    /\ UNCHANGED vi_history
    /\ UNCHANGED notIndexVars

NextIndex == AddChunks \/ Query

SpecIndex == InitIndex /\ [][NextIndex]_vars

(***************************************************************************)
(* Properties of the vector index                                          *)
(***************************************************************************)
LastAdd == vi_history[Len(vi_history)]

\* the chunks the index holds, as (doc_id, chunk_id, text)
Indexed ==
    { <<e.metadata.doc_id, e.id, e.document>> : e \in _get_collection(vi_collection) }

ChunksOf(call) ==
    { <<call.doc_id, call.chunks[i].chunk_id, call.chunks[i].chunk_text>>
        : i \in 1..Len(call.chunks) }

EarlierDocIds ==
    { vi_history[i].doc_id : i \in 1..(Len(vi_history) - 1) } \ {LastAdd.doc_id}

\* C20: after any sequence of completed add_chunks calls with non-empty lists
\* the index holds exactly the chunks of the most recent call; a query for an
\* earlier doc_id returns the empty list, and every hit of a query carries the
\* doc_id that was asked for.
C20_SingleActiveDocument ==
    vi_history # <<>> =>
        /\ Indexed = ChunksOf(LastAdd)
        /\ vi_query # <<>> =>
              /\ \A i \in 1..Len(vi_hits) : vi_hits[i].doc_id = vi_query[1].doc_id
              /\ vi_query[1].doc_id \in EarlierDocIds => vi_hits = <<>>

C20_Witness ==
    /\ Len(vi_history) >= 2
    /\ vi_query # <<>>
    /\ vi_query[1].query_text # " "
    /\ vi_query[1].doc_id \in EarlierDocIds
    /\ vi_hits = <<>>


(***************************************************************************)
(* Properties of the handling of the generator's failures                  *)
(***************************************************************************)
AskGotMalformed ==
    qa_llm_calls # <<>> /\ qa_llm_calls[Len(qa_llm_calls)] \in MalformedCompletions

SumGotMalformed ==
    sp_llm_calls # <<>> /\ sp_llm_calls[Len(sp_llm_calls)] \in MalformedCompletions

AskIsNotFound ==
    /\ qa_pc = "done"
    /\ qa_response.answer_type = "not_found"
    /\ qa_response.citations = <<>>
    /\ qa_response.confidence = "low"

SectionIsNotFound ==
    /\ sp_pc = "score"
    /\ ~ sp_section_out.present
    /\ sp_section_out.bullets = <<>>

\* C21: for a completion that is no JSON object (prose, truncated or invalid
\* JSON in braces, a JSON value that is no object) summarize_section and ask do
\* not raise and return the not-found result.
C21_MalformedOutputGivesNotFound ==
    /\ AskGotMalformed => AskIsNotFound
    /\ (SumGotMalformed /\ sp_pc \in {"score", "raised"}) => SectionIsNotFound

\* C22: when the client call raises, summarize_section and ask return the
\* not-found, low-confidence result instead of raising, and the generator is
\* called at most once per invocation.
C22_ClientFailureGivesNotFound ==
    /\ Len(qa_llm_calls) <= 1
    /\ Len(sp_llm_calls) <= 1
    /\ (qa_llm_calls # <<>> /\ qa_llm_calls[Len(qa_llm_calls)] = ClientError)
          => AskIsNotFound
    /\ (sp_llm_calls # <<>> /\ sp_llm_calls[Len(sp_llm_calls)] = ClientError
          /\ sp_pc \in {"score", "raised"}) => SectionIsNotFound


(***************************************************************************)
(* _remove_repeated_header_footer (src/ingestion.py)                       *)
(***************************************************************************)
\* the lines of the pages: a header, the same header typed with two spaces, a
\* line of the body, a line of two characters
HeaderLine == "Acme Health Plan"
HeaderLineSpaced == "Acme  Health Plan"
BodyLine == "Your copay is $25."
ShortLine == "ii"

\* _normalize_line: " ".join(s.split()).strip()
_normalize_line(s) == IF s = HeaderLineSpaced THEN HeaderLine ELSE s

\* len(n)
LineLen(n) ==
    CASE n = HeaderLine -> 16
      [] n = BodyLine -> 18
      [] n = ShortLine -> 2
      [] OTHER -> 0

PageLines ==
    { <<>>, <<HeaderLine>>, <<HeaderLineSpaced, BodyLine>>, <<BodyLine>>,
      <<HeaderLine, BodyLine, HeaderLine>>, <<ShortLine, BodyLine>> }

\* all_lines[n]: the occurrences of the normalized line n on all pages
RECURSIVE CountLines(_, _)
CountLines(lbp, n) ==
    IF lbp = <<>> THEN 0
    ELSE Len(SelectSeq(Head(lbp), LAMBDA ln : _normalize_line(ln) = n /\ LineLen(n) > 2))
         + CountLines(Tail(lbp), n)

_remove_repeated_header_footer(lbp) ==
    IF Len(lbp) < 2 THEN lbp
    ELSE LET threshold == Max(2, Len(lbp) \div 2)
             repeated == { n \in {HeaderLine, BodyLine, ShortLine}
                             : CountLines(lbp, n) > threshold }
         IN  [p \in 1..Len(lbp) |->
                SelectSeq(lbp[p], LAMBDA ln : _normalize_line(ln) \notin repeated)]

InitHdr ==
    /\ lines_by_page \in UNION { [1..n -> PageLines] : n \in 1..MaxHdrPages }
    /\ hf_pc = "call"
    /\ hf_result = <<>>
    /\ OthersIdleHdr

RemoveHeaders ==
    /\ hf_pc = "call"
    /\ hf_result' = _remove_repeated_header_footer(lines_by_page)
    /\ hf_pc' = "done"
    /\ UNCHANGED lines_by_page
    /\ UNCHANGED notHdrVars

NextHdr == RemoveHeaders

SpecHdr == InitHdr /\ [][NextHdr]_vars

(***************************************************************************)
(* Properties of _remove_repeated_header_footer                            *)
(***************************************************************************)
\* the number of pages on which the normalized line n occurs
PagesWith(lbp, n) ==
    Cardinality({ p \in 1..Len(lbp) :
                    \E i \in 1..Len(lbp[p]) : _normalize_line(lbp[p][i]) = n })

OnMoreThanHalf(lbp, ln) == 2 * PagesWith(lbp, _normalize_line(ln)) > Len(lbp)

\* C23: for two or more pages, every line whose normalized form occurs on more
\* than half of the pages is removed from every page, and every line whose
\* normalized form occurs on at most half of the pages is kept.
C23_RemovesLinesOnMoreThanHalf ==
    (hf_pc = "done" /\ Len(lines_by_page) >= 2) =>
        \A p \in 1..Len(lines_by_page) :
            hf_result[p] = SelectSeq(lines_by_page[p],
                                     LAMBDA ln : ~ OnMoreThanHalf(lines_by_page, ln))


(***************************************************************************)
(* save_chunks, load_chunks and the TTL cache                              *)
(* (src/backend/storage.py, src/utils.py)                                  *)
(***************************************************************************)
BasePaths == {"data/documents", "tmp/documents", "test/documents"}

\* the chunk lists saved for the document
SavedChunkLists ==
    { <<>>,
      <<IndexChunk("doc-1", 1, 0)>>,
      <<IndexChunk("doc-1", 1, 0), IndexChunk("doc-1", 1, 1)>>,
      <<IndexChunk("doc-1", 1, 1), IndexChunk("doc-1", 2, 0)>> }

\* json.dumps(c.model_dump()): one line of chunks.jsonl
JsonLine(c) ==
    <<"chunk_id", c.chunk_id, "page_number", c.page_number, "doc_id", c.doc_id,
      "chunk_text", c.chunk_text>>

\* Chunk.model_validate(json.loads(line))
ChunkOfLine(line) ==
    [chunk_id |-> line[2], page_number |-> line[4], doc_id |-> line[6],
     chunk_text |-> line[8]]

\* cache_get: None (<<>>) for a missing or an expired entry, which is deleted
cache_get(cache) == IF cache = <<>> \/ cache[1].expired THEN <<>> ELSE <<cache[1].value>>

CacheAfterGet(cache) == IF cache # <<>> /\ cache[1].expired THEN <<>> ELSE cache

\* cache_set
cache_set(value) == <<[value |-> value, expired |-> FALSE]>>

\* f"chunks:{document_id}": the key of the cache entry
CacheKey(base, doc) == <<"chunks", doc>>

CacheKeys == { CacheKey(b, "doc-1") : b \in BasePaths }

InitStore ==
    /\ ck_files = [b \in BasePaths |-> <<>>]
    /\ ck_cache = [k \in CacheKeys |-> <<>>]
    /\ ck_saved = [b \in BasePaths |-> <<>>]
    /\ ck_last = <<>>
    /\ OthersIdleStore

\* save_chunks(chunks, doc_id, base_path)
SaveChunks ==
    /\ \E b \in BasePaths, cs \in SavedChunkLists :
         /\ ck_files' = [ck_files EXCEPT ![b] = <<[i \in 1..Len(cs) |-> JsonLine(cs[i])]>>]
         /\ ck_cache' = [ck_cache EXCEPT ![CacheKey(b, "doc-1")] = <<>>]
         /\ ck_saved' = [ck_saved EXCEPT ![b] = <<cs>>]
         /\ ck_last' = <<[op |-> "save_chunks", base_path |-> b, returned |-> <<>>]>>
    /\ UNCHANGED notStoreVars

\* load_chunks(doc_id, base_path)
LoadChunks ==
    /\ \E b \in BasePaths :
         LET key == CacheKey(b, "doc-1")
             cached == cache_get(ck_cache[key])
         IN  IF cached # <<>>
             THEN /\ ck_last' = <<[op |-> "load_chunks", base_path |-> b,
                                   returned |-> cached]>>
                  /\ UNCHANGED ck_cache
             ELSE IF ck_files[b] = <<>>
             THEN /\ ck_last' = <<[op |-> "load_chunks", base_path |-> b,
                                   returned |-> "FileNotFoundError"]>>
                  /\ ck_cache' = [ck_cache EXCEPT ![key] = CacheAfterGet(ck_cache[key])]
             ELSE LET lines == ck_files[b][1]
                      loaded == [i \in 1..Len(lines) |-> ChunkOfLine(lines[i])]
                  IN  /\ ck_cache' = [ck_cache EXCEPT ![key] = cache_set(loaded)]
                      /\ ck_last' = <<[op |-> "load_chunks", base_path |-> b,
                                       returned |-> <<loaded>>]>>
    /\ UNCHANGED <<ck_files, ck_saved>>
    /\ UNCHANGED notStoreVars

\* CACHE_TTL_SECONDS go by: the entries that exist are past their expiry
TtlElapses ==
    /\ \E k \in CacheKeys : ck_cache[k] # <<>> /\ ~ ck_cache[k][1].expired
    /\ ck_cache' = [k \in CacheKeys |->
                      IF ck_cache[k] = <<>> THEN <<>>
                      ELSE <<[ck_cache[k][1] EXCEPT !.expired = TRUE]>>]
    /\ ck_last' = <<>>
    /\ UNCHANGED <<ck_files, ck_saved>>
    /\ UNCHANGED notStoreVars

NextStore == SaveChunks \/ LoadChunks \/ TtlElapses

SpecStore == InitStore /\ [][NextStore]_vars

(***************************************************************************)
(* Properties of the chunk store                                           *)
(***************************************************************************)
Loaded ==
    /\ ck_last # <<>>
    /\ ck_last[1].op = "load_chunks"
    /\ ck_last[1].returned # "FileNotFoundError"

\* C24: after any sequence of save_chunks and load_chunks calls, load_chunks
\* returns the chunk list most recently saved for the doc_id under the base
\* path asked for: every chunk_id, page_number, doc_id and text, in the order
\* saved.
C24_LoadReturnsLastSaved ==
    (Loaded /\ ck_saved[ck_last[1].base_path] # <<>>) =>
        ck_last[1].returned = ck_saved[ck_last[1].base_path]


(***************************************************************************)
(* Further properties of the chunker                                       *)
(***************************************************************************)
\* C25: every chunk made of two or more sentences has a summed approximate
\* token count (len(sentence) // 4 over its sentences) of at most MAX_TOKENS;
\* only a chunk that is one single sentence may exceed it.
C25_PackedChunksWithinMaxTokens ==
    \A i \in 1..Len(all_chunks) :
        Len(SentencesOf(all_chunks[i].chunk_text)) >= 2 =>
            SumApproxTokens(SentencesOf(all_chunks[i].chunk_text)) <= MAX_TOKENS


\* the sentences of chunk i of cs that are not the overlap carried over from
\* chunk i - 1
NewSentences(cs, i) ==
    LET ss == SentencesOf(cs[i].chunk_text)
    IN  IF i = 1 THEN ss
        ELSE LET ov == ShortestReachingSuffix(SentencesOf(cs[i - 1].chunk_text))
             IN  SubSeq(ss, Len(ov) + 1, Len(ss))

\* the chunks 1..n of cs with every overlap prefix dropped, concatenated
RECURSIVE Reassembled(_, _)
Reassembled(cs, n) ==
    IF n = 0 THEN <<>> ELSE Reassembled(cs, n - 1) \o NewSentences(cs, n)

\* C26: chunking loses and reorders nothing: for every chunked page with at
\* least one sentence, the page's chunks in index order, each after the first
\* without its overlap prefix, concatenate to exactly the page's sentence
\* sequence; every chunk contributes at least one sentence that is not in the
\* previous chunk, and the page has at most as many chunks as sentences.
C26_ChunkingLosesNothing ==
    /\ \A k \in 1..Len(pages) :
          ((cpc = "done" \/ k < page_i) /\ _split_into_sentences(pages[k].text) # <<>>) =>
              LET cs == ChunksOfPage(k)
              IN  /\ Reassembled(cs, Len(cs)) = _split_into_sentences(pages[k].text)
                  /\ \A i \in 1..Len(cs) : NewSentences(cs, i) # <<>>
                  /\ Len(cs) <= Len(_split_into_sentences(pages[k].text))
    /\ cpc = "sentences" =>
          /\ \A i \in 1..Len(chunks) : NewSentences(chunks, i) # <<>>
          /\ Len(chunks) < sent_i

C26_Witness ==
    /\ cpc = "done"
    /\ \E k \in 1..Len(pages) :
          /\ Len(_split_into_sentences(pages[k].text)) = 4
          /\ Len(ChunksOfPage(k)) = 3
          /\ Len(NewSentences(ChunksOfPage(k), 2)) < Len(SentencesOf(ChunksOfPage(k)[2].chunk_text)) - 1


(***************************************************************************)
(* The closest match and the cap, checked under SpecRetr                   *)
(***************************************************************************)
\* the hits of the sub-queries that carry the smallest distance returned
ClosestHits ==
    {h \in returned :
        /\ h.distance # NoDistance
        /\ \A g \in returned : g.distance # NoDistance => h.distance[1] <= g.distance[1]}

\* C27: for a known section and max_chunks >= 1, a hit with the smallest
\* distance among all hits returned by all sub-queries is in the list
\* retrieve_for_section returns: the cut to max_chunks never discards the
\* closest match.
C27_ClosestHitSurvivesCap ==
    (rpc = "done" /\ QueriesOf(section_name) # <<>> /\ max_chunks >= 1 /\ ClosestHits # {}) =>
        \E h \in ClosestHits : \E i \in 1..Len(r_result) :
            r_result[i].chunk_id = h.chunk_id


(***************************************************************************)
(* Citation pages, checked under SpecSum and SpecAsk                       *)
(***************************************************************************)
\* the citation names the page of the retrieved chunk that has its chunk_id
PageOfItsChunk(c, chunk_list) ==
    \E k \in 1..Len(chunk_list) :
        /\ chunk_list[k].chunk_id = c.chunk_id
        /\ chunk_list[k].page_number = c.page

\* C28: every citation of a section summary produced by
\* run_full_summary_pipeline with no validation issue recorded, and every
\* citation returned by ask, names a page equal to the page_number of the
\* retrieved chunk with that chunk_id: an allowed chunk_id paired with a
\* different page is never accepted.
C28_CitationPageIsChunkPage ==
    /\ (JustScored /\ LastSection.validation_issues = <<>>) =>
          \A i \in 1..Len(LastSection.bullets) :
              \A j \in 1..Len(LastSection.bullets[i].citations) :
                  PageOfItsChunk(LastSection.bullets[i].citations[j], sp_chunks)
    /\ qa_pc = "done" =>
          \A j \in 1..Len(qa_response.citations) :
              PageOfItsChunk(qa_response.citations[j], qa_chunks)


(***************************************************************************)
(* Concurrent run_ingest callers on the shared vector index                *)
(* (src/backend/ingestion.py run_ingest, src/backend/storage.py add_chunks)*)
(***************************************************************************)
\* the callers of run_ingest, each with a document of its own
Callers == {1, 2}

DocOf(p) == IF p = 1 THEN "doc-1" ELSE "doc-2"

\* the document ingested before the callers start
PreviousDoc == "doc-3"

\* client.get_or_create_collection(name=COLLECTION_NAME, ...): the collection
\* of that name, created empty with a fresh uid when there is none
GetOrCreateCollection(collection, uid) ==
    IF collection = <<>> THEN <<[uid |-> uid, entries |-> {}]>> ELSE collection

InitReingest ==
    /\ \E prev \in IndexChunkLists(PreviousDoc) :
          ri_collection = IF prev = <<>> THEN <<>>
                          ELSE <<[uid |-> 1, entries |-> CollectionAdd({}, PreviousDoc, prev)]>>
    /\ ri_next_uid = 2
    /\ ri_before = ri_collection
    /\ ri_pc = [p \in Callers |-> "start"]
    /\ ri_chunks = [p \in Callers |-> <<>>]
    /\ ri_handle = [p \in Callers |-> 0]
    /\ ri_dir = [p \in Callers |-> FALSE]
    /\ ri_query = <<>>
    /\ ri_hits = <<>>
    /\ OthersIdleReingest

\* run_ingest up to the call of add_chunks: save_raw_pdf, extract_pages, the
\* checks, save_extracted_pages, chunk_pages, save_chunks; any of them after
\* save_raw_pdf may raise
ReingestPrepare(p) ==
    /\ ri_pc[p] = "start"
    /\ ri_dir' = [ri_dir EXCEPT ![p] = TRUE]
    /\ \/ /\ \E cs \in IndexChunkLists(DocOf(p)) \ {<<>>} :
                ri_chunks' = [ri_chunks EXCEPT ![p] = cs]
          /\ ri_pc' = [ri_pc EXCEPT ![p] = "wipe"]
       \/ /\ ri_pc' = [ri_pc EXCEPT ![p] = "except"]
          /\ UNCHANGED ri_chunks
    /\ ri_query' = <<>>
    /\ ri_hits' = <<>>
    /\ UNCHANGED <<ri_collection, ri_next_uid, ri_before, ri_handle>>
    /\ UNCHANGED notReingestVars

\* add_chunks: wipe_database()
ReingestWipe(p) ==
    /\ ri_pc[p] = "wipe"
    /\ ri_collection' = wipe_database(ri_collection)
    /\ ri_pc' = [ri_pc EXCEPT ![p] = "get"]
    /\ ri_query' = <<>>
    /\ ri_hits' = <<>>
    /\ UNCHANGED <<ri_next_uid, ri_before, ri_chunks, ri_handle, ri_dir>>
    /\ UNCHANGED notReingestVars

\* add_chunks: collection = _get_collection()
ReingestGetCollection(p) ==
    /\ ri_pc[p] = "get"
    /\ ri_collection' = GetOrCreateCollection(ri_collection, ri_next_uid)
    /\ ri_next_uid' = IF ri_collection = <<>> THEN ri_next_uid + 1 ELSE ri_next_uid
    /\ ri_handle' = [ri_handle EXCEPT ![p] = ri_collection'[1].uid]
    /\ ri_pc' = [ri_pc EXCEPT ![p] = "add"]
    /\ ri_query' = <<>>
    /\ ri_hits' = <<>>
    /\ UNCHANGED <<ri_before, ri_chunks, ri_dir>>
    /\ UNCHANGED notReingestVars

\* add_chunks: collection.add(ids, documents, metadatas), which embeds the
\* documents through the embedding service and may raise; it raises when the
\* collection of the handle has been deleted meanwhile
ReingestAdd(p) ==
    /\ ri_pc[p] = "add"
    /\ \/ /\ ri_collection # <<>>
          /\ ri_collection[1].uid = ri_handle[p]
          /\ ri_collection' =
                 <<[uid |-> ri_handle[p],
                    entries |-> CollectionAdd(ri_collection[1].entries, DocOf(p),
                                              ri_chunks[p])]>>
          /\ ri_pc' = [ri_pc EXCEPT ![p] = "return"]
       \/ /\ ri_pc' = [ri_pc EXCEPT ![p] = "except"]
          /\ UNCHANGED ri_collection
    /\ ri_query' = <<>>
    /\ ri_hits' = <<>>
    /\ UNCHANGED <<ri_next_uid, ri_before, ri_chunks, ri_handle, ri_dir>>
    /\ UNCHANGED notReingestVars

\* except Exception as e: the document directory is removed, raise e
ReingestExcept(p) ==
    /\ ri_pc[p] = "except"
    /\ ri_dir' = [ri_dir EXCEPT ![p] = FALSE]
    /\ ri_pc' = [ri_pc EXCEPT ![p] = "raised"]
    /\ ri_query' = <<>>
    /\ ri_hits' = <<>>
    /\ UNCHANGED <<ri_collection, ri_next_uid, ri_before, ri_chunks, ri_handle>>
    /\ UNCHANGED notReingestVars

\* add_chunks returns, and run_ingest returns doc_id
ReingestReturn(p) ==
    /\ ri_pc[p] = "return"
    /\ ri_pc' = [ri_pc EXCEPT ![p] = "returned"]
    /\ ri_query' = <<>>
    /\ ri_hits' = <<>>
    /\ UNCHANGED <<ri_collection, ri_next_uid, ri_before, ri_chunks, ri_handle, ri_dir>>
    /\ UNCHANGED notReingestVars

\* query(doc_id, query_text, top_k) by a reader of the index
ReingestQuery ==
    /\ \E doc \in IndexDocIds, text \in QueryTexts, top_k \in 1..MaxTopK :
         /\ ri_query' = <<[doc_id |-> doc, query_text |-> text, top_k |-> top_k]>>
         /\ IF text = " "
            THEN ri_hits' = <<>> /\ UNCHANGED <<ri_collection, ri_next_uid>>
            ELSE /\ ri_collection' = GetOrCreateCollection(ri_collection, ri_next_uid)
                 /\ ri_next_uid' = IF ri_collection = <<>> THEN ri_next_uid + 1
                                   ELSE ri_next_uid
                 /\ \E r \in CollectionQuery(ri_collection'[1].entries, doc, top_k) :
                       ri_hits' = [i \in 1..Len(r) |-> QueryHit(r[i], i)]
    /\ UNCHANGED <<ri_before, ri_pc, ri_chunks, ri_handle, ri_dir>>
    /\ UNCHANGED notReingestVars

NextReingest ==
    \/ \E p \in Callers : ReingestPrepare(p)
    \/ \E p \in Callers : ReingestWipe(p)
    \/ \E p \in Callers : ReingestGetCollection(p)
    \/ \E p \in Callers : ReingestAdd(p)
    \/ \E p \in Callers : ReingestExcept(p)
    \/ \E p \in Callers : ReingestReturn(p)
    \/ ReingestQuery

SpecReingest == InitReingest /\ [][NextReingest]_vars


(***************************************************************************)
(* Properties of ingestion against the shared index, under SpecReingest    *)
(***************************************************************************)
\* the entries of the collection, none when there is no collection
EntriesOf(collection) == IF collection = <<>> THEN {} ELSE collection[1].entries

\* caller p has failed and no other caller has started
FailedAlone(p) ==
    ri_pc[p] = "raised" /\ \A q \in Callers \ {p} : ri_pc[q] = "start"

\* C29: a failed ingestion leaves the vector index as it was before the call:
\* when run_ingest for a new document has failed at any step, also inside
\* add_chunks after wipe_database has run, the chunks of the previously
\* ingested document are still in the index, and a query for that document
\* returns them as before.
C29_FailedIngestLeavesIndex ==
    \A p \in Callers :
        FailedAlone(p) =>
            /\ EntriesOf(ri_collection) = EntriesOf(ri_before)
            /\ (ri_query # <<>> /\ ri_query[1].doc_id = PreviousDoc
                                /\ ri_query[1].query_text # " ") =>
                   \E r \in CollectionQuery(EntriesOf(ri_before), PreviousDoc,
                                            ri_query[1].top_k) :
                       ri_hits = [i \in 1..Len(r) |-> QueryHit(r[i], i)]

\* the chunks of caller p that the index holds
IndexedOf(p) == {e \in EntriesOf(ri_collection) : e.metadata.doc_id = DocOf(p)}

\* all chunks of caller p, as index entries
AllEntriesOf(p) == CollectionAdd({}, DocOf(p), ri_chunks[p])

\* C30: under any interleaving of the steps of two concurrent add_chunks calls
\* for different documents, once both calls have returned the index holds
\* chunks of exactly one doc_id and all chunks of that document; chunks of
\* both documents are never indexed together, and a call that has returned
\* normally has not left its document partly indexed.
C30_ConcurrentAddsLeaveOneDocument ==
    /\ (\A p \in Callers : ri_pc[p] = "returned") =>
          \E p \in Callers : EntriesOf(ri_collection) = AllEntriesOf(p)
    /\ ~ (\A p \in Callers : IndexedOf(p) # {})
    /\ \A p \in Callers :
          ri_pc[p] = "returned" => IndexedOf(p) \in {{}, AllEntriesOf(p)}
====
